---------------------------- MODULE Spec2Model ----------------------------
(***************************************************************************)
(* A model of the cyberjob-alert-bot pipeline: discovery of postings,      *)
(* the filter chain, the seen-jobs store and the Slack dispatcher, in the  *)
(* three variants of the repository:                                       *)
(*   job_alert.py       (prog = "job_alert")                               *)
(*   elite_companies.py (prog = "elite")                                   *)
(*   test_job_alert.py  (prog = "test")                                    *)
(*                                                                         *)
(* A text (title, description, ...) is modelled by the set of the marker   *)
(* phrases it contains, already lower-cased; a compiled pattern is the set *)
(* of its alternatives, and pattern.search(text) is a non-empty            *)
(* intersection.  An optional value is <<>> (None) or <<v>>.               *)
(***************************************************************************)
EXTENDS Integers, Sequences, FiniteSets, TLC

VARIABLES
    prog,                \* which script runs
    pc,                  \* position of the main thread
    run,                 \* number of the current run (1, 2, ...)
    now,                 \* wall clock, in seconds
    provider,            \* what scrape_jobs returns per query (fixed over the runs)
    sink,                \* the Slack webhook: "unknown", "up", "down", "flaky"
    env,                 \* the webhook variable, the disk and the persisted file
    seenFile,            \* seen_jobs.json / seen_main_jobs.json: the persisted ids
    cacheFile,           \* elite_jobs_cache.json: url -> first_seen
    SEEN_JOBS,           \* the module-level set SEEN_JOBS
    cache,               \* cache["jobs"] of elite_companies: url -> first_seen
    pending,             \* queries whose future the main thread has not consumed
    jobs,                \* the batch being processed (jobs_batch)
    fut,                 \* per job of the batch: its future's result, or Pending
    taken,               \* futures of the batch already consumed by as_completed
    filtered_jobs,       \* filtered_jobs / final_jobs of the batch
    filter_counts,       \* filter_counts / stats of the batch
    stage1_jobs,         \* test_job_alert: stage1_jobs of the batch
    all_new_jobs,        \* all_new_jobs / all_jobs of the run
    total_filter_counts, \* total_filter_counts / total_stats of the run
    th,                  \* elite: the worker threads of process_company_batch
    messages,            \* the messages main hands to post_to_slack
    mi,                  \* index of the message (start of the batch) being sent
    attempt,             \* attempt number inside post_to_slack
    sinkLog,             \* what reached the webhook and every time.sleep, in order
    cur,                 \* classification of one posting: the posting
    outcome,             \* classification of one posting: the result
    hist                 \* history of the runs (what was accepted, recorded, ...)

vars == << prog, pc, run, now, provider, sink, env, seenFile, cacheFile, SEEN_JOBS,
           cache, pending, jobs, fut, taken, filtered_jobs, filter_counts,
           stage1_jobs, all_new_jobs, total_filter_counts, th, messages, mi,
           attempt, sinkLog, cur, outcome, hist >>

-----------------------------------------------------------------------------
(* Optional values and texts *)

None == << >>

Some(v) == << v >>

\* str.lower() on the names the model uses
Lower(s) ==
    CASE s = "Acme" -> "acme"
      [] s = "Acme Labs" -> "acme labs"
      [] OTHER -> s

\* pattern.search(text): some alternative of the pattern occurs in the text
Search(pattern, text) == (pattern \cap text) # {}

\* job_alert.py
TITLE_KEYWORDS ==
    { "cyber", "security", "soc", "grc", "infosec", "threat", "incident response",
      "vulnerability", "detection", "cloud security", "security analyst",
      "security engineer", "malware", "siem", "log analysis", "risk", "appsec",
      "devsecops" }

REJECT_TITLE ==
    { "senior", "manager", "lead", "director", "principal", "architect", "vp",
      "vice president", "chief", "head of", "operations manager" }

SOURCE_REJECT ==
    { "dice", "lensa", "jobs via dice", "jobs via lensa", "via dice", "via lensa" }

EASY_APPLY ==
    { "easy apply", "quick apply", "1-click apply", "1 click apply", "apply now",
      "apply with your profile", "apply with linkedin" }

\* elite_companies.py
REJECT_TITLE_PATTERN ==
    { "senior", "sr", "manager", "lead", "director", "principal", "architect",
      "vp", "chief", "head", "experienced", "staff", "distinguished" }

REQUIRED_TITLE_PATTERN ==
    { "security", "soc", "cyber", "infosec", "incident", "threat", "siem",
      "malware", "detection", "grc", "cloud security", "identity", "risk",
      "forensics", "devsecops", "appsec", "vulnerability" }

REJECT_DESCRIPTION_PATTERN ==
    { "us citizen", "u.s. citizen", "must be a us citizen", "only us citizens",
      "citizenship required", "security clearance", "ts/sci", "ts / sci",
      "polygraph", "top secret", "clearance required", "iat level ii",
      "public trust" }

\* test_job_alert.py
T_TITLE_KEYWORDS == TITLE_KEYWORDS \ { "devsecops" }

T_REJECT_TITLE == REJECT_TITLE \cup { "sr." }

CLEARANCE_KEYWORDS ==
    { "security clearance", "secret clearance", "top secret", "ts/sci",
      "clearance required", "government clearance", "dod clearance",
      "federal clearance", "clearability", "able to obtain clearance" }

\* A phrase about years of experience, as EXPERIENCE_REJECT reads it: the
\* words before the number, the number (with or without "+"), the unit and
\* the words after the unit
Phrase(lead, n, unit, after) == [ lead |-> lead, n |-> n, unit |-> unit, after |-> after ]

\* the phrases about years of experience in the model's descriptions
Words(text) ==
    CASE text = "5+ years preferred" -> Phrase("", 5, "years", << "preferred" >>)
      [] text = "5+ years required" -> Phrase("", 5, "years", << "required" >>)
      [] text = "requires 5+ years" -> Phrase("requires", 5, "years", << >>)
      [] text = "requires 5+ years preferred" -> Phrase("requires", 5, "years", << "preferred" >>)
      [] text = "requires 5+ years required" -> Phrase("requires", 5, "years", << "required" >>)
      [] text = "requires 5 y preferred" -> Phrase("requires", 5, "y", << "preferred" >>)
      [] text = "requires 2 years" -> Phrase("requires", 2, "years", << >>)
      [] text = "minimum 3 years" -> Phrase("minimum", 3, "years", << >>)
      [] text = "minimum 3 years nice to have" -> Phrase("minimum", 3, "years", << "nice to have" >>)
      [] text = "minimum of 5 year a plus" -> Phrase("minimum of", 5, "year", << "a plus" >>)
      [] text = "5+ years of experience in" -> Phrase("", 5, "years", << "of experience", "in" >>)
      [] text = "5 years or more preferred" -> Phrase("", 5, "years", << "or more", "preferred" >>)
      [] text = "5 years minimum a plus" -> Phrase("", 5, "years", << "minimum", "a plus" >>)

ExperienceTexts ==
    { "5+ years preferred", "5+ years required", "requires 5+ years",
      "requires 5+ years preferred", "requires 5+ years required",
      "requires 5 y preferred", "requires 2 years", "minimum 3 years",
      "minimum 3 years nice to have", "minimum of 5 year a plus",
      "5+ years of experience in", "5 years or more preferred",
      "5 years minimum a plus" }

\* EXPERIENCE_REJECT, "Direct experience requirements": the words that open one
DirectLeads ==
    { "minimum", "min", "at least", "requires", "require", "must have", "need",
      "needs", "looking for", "seeking", "should have", "candidate should",
      "we require", "prefer", "preferably" }

\* EXPERIENCE_REJECT, "Alternative patterns": the words that open one
AlternativeLeads ==
    { "experience", "experience of", "background", "background of", "expertise",
      "expertise of", "minimum of", "min of" }

\* the numbers of EXPERIENCE_REJECT: 3 to 10, 1[1-9], [2-9]\d
YearsMatch(n) == 3 <= n /\ n <= 99

\* what is left of the unit when (?:years?|yrs?|y) has matched: the
\* alternation matches the whole unit or, backtracking, a shorter start of it
UnitRests(unit) ==
    CASE unit = "years" -> { "", "s", "ears" }
      [] unit = "year" -> { "", "ear" }
      [] unit = "yrs" -> { "", "s", "rs" }
      [] unit = "yr" -> { "", "r" }
      [] unit = "y" -> { "" }

\* the same for (?:years?|yrs?) of the alternative patterns
UnitRestsNoY(unit) ==
    CASE unit = "years" -> { "", "s" }
      [] unit = "yrs" -> { "", "s" }
      [] unit \in { "year", "yr" } -> { "" }
      [] unit = "y" -> {}

\* the words of the negative lookahead that closes EXPERIENCE_REJECT
NegationQualifiers ==
    { "preferred", "desired", "plus", "a plus", "helpful", "nice to have",
      "would be nice", "would be great", "bonus", "advantageous", "ideal",
      "good to have" }

\* (?!\s*(?:preferred|...)) at the place where the match ends: rest is what
\* is left of the word the match stopped in, after the words that follow
Lookahead(rest, after) ==
    ~ (rest = "" /\ after # << >> /\ after[1] \in NegationQualifiers)

\* keyword, number, unit
DirectMatch(p) ==
    /\ p.lead \in DirectLeads
    /\ YearsMatch(p.n)
    /\ \E rest \in UnitRests(p.unit) : Lookahead(rest, p.after)

\* number, unit, "(of) experience", "in|with|of|working"
ExperienceFirstMatch(p) ==
    /\ YearsMatch(p.n)
    /\ UnitRests(p.unit) # {}
    /\ Len(p.after) >= 2
    /\ p.after[1] \in { "of experience", "experience", "of exp", "exp",
                        "of background", "background" }
    /\ p.after[2] \in { "in", "with", "of", "working" }
    /\ Lookahead("", SubSeq(p.after, 3, Len(p.after)))

\* "experience (of)" or "minimum of", number, unit; or number, unit,
\* "minimum|min|or more" ("minimum" can be cut to "min" by backtracking)
AlternativeMatch(p) ==
    /\ YearsMatch(p.n)
    /\ \/ /\ p.lead \in AlternativeLeads
          /\ \E rest \in UnitRestsNoY(p.unit) : Lookahead(rest, p.after)
       \/ /\ UnitRestsNoY(p.unit) # {}
          /\ p.after # << >>
          /\ \/ p.after[1] = "minimum"
             \/ /\ p.after[1] \in { "min", "or more" }
                /\ Lookahead("", Tail(p.after))

\* EXPERIENCE_REJECT.search on one phrase
ExperienceMatch(p) == DirectMatch(p) \/ ExperienceFirstMatch(p) \/ AlternativeMatch(p)

\* the phrases of the model's descriptions that EXPERIENCE_REJECT matches
EXPERIENCE_REJECT == { text \in ExperienceTexts : ExperienceMatch(Words(text)) }

SPONSORSHIP_REJECT ==
    { "no sponsorship", "us citizens only", "must be legally authorized",
      "visa sponsorship not available" }

EASY_APPLY_REJECT == EASY_APPLY \cup { "one click", "instant apply" }

-----------------------------------------------------------------------------
(* Postings *)

\* "linkedin.com" in url
IsLinkedIn(url) == url \in { "linkedin.com/1", "linkedin.com/2", "linkedin.com/3" }

Job(url, title, company, via, description, apply_text, page) ==
    [ job_url |-> url, title |-> title, company |-> company, via |-> via,
      description |-> description, apply_text |-> apply_text, page |-> page ]

\* Result of a filter: the pair the function returns, or the exception it raises
Result(ok, reason) == [ ok |-> ok, reason |-> reason, raised |-> FALSE ]

Raised(exc) == [ ok |-> FALSE, reason |-> exc, raised |-> TRUE ]


-----------------------------------------------------------------------------
(* The filters *)

\* str(job.get(k, "")).lower() of an optional text: None matches nothing
Text(opt) == IF opt = None THEN {} ELSE opt[1]

\* job_alert.check_title_match
check_title_match(title) == Search(TITLE_KEYWORDS, title)

\* job_alert.filter_job, reading the global SEEN_JOBS
ja_filter_job(job, seen) ==
    LET description == Text(job.description)
        source == Text(job.via)
        full_text == job.title \cup description \cup job.apply_text
    IN  IF job.job_url \in seen THEN Result(FALSE, "seen")
        ELSE IF \/ Search(SOURCE_REJECT, source)
                \/ Search(SOURCE_REJECT, description)
                \/ Search(SOURCE_REJECT, job.company)
             THEN Result(FALSE, "source")
        ELSE IF ~ check_title_match(job.title) THEN Result(FALSE, "title_keywords")
        ELSE IF Search(REJECT_TITLE, job.title) THEN Result(FALSE, "title_reject")
        ELSE IF Search(EASY_APPLY, full_text) THEN Result(FALSE, "easy_apply")
        ELSE Result(TRUE, "passed")

\* elite_companies.is_job_seen
is_job_seen(job_url, cache_jobs) == job_url \in DOMAIN cache_jobs

\* elite_companies.filter_job: description.lower() is evaluated first and
\* raises on a posting without description
ec_filter_job(job, company, cache_jobs) ==
    IF job.description = None THEN Raised("AttributeError")
    ELSE LET job_via == Text(job.via)
             description == job.description[1]
         IN  IF is_job_seen(job.job_url, cache_jobs) THEN Result(FALSE, "cached")
             ELSE IF Lower(company) \notin job.company
                  THEN Result(FALSE, "company_mismatch")
             ELSE IF "dice" \in job_via \/ "lensa" \in job_via
                  THEN Result(FALSE, "bad_source")
             ELSE IF Search(REJECT_TITLE_PATTERN, job.title)
                  THEN Result(FALSE, "title_reject")
             ELSE IF ~ Search(REQUIRED_TITLE_PATTERN, job.title)
                  THEN Result(FALSE, "title_missing_keywords")
             ELSE IF Search(REJECT_DESCRIPTION_PATTERN, description)
                  THEN Result(FALSE, "description_reject")
             ELSE Result(TRUE, "passed")

\* test_job_alert.check_title_match
t_check_title_match(title) == Search(T_TITLE_KEYWORDS, title)

\* stage1_filter with the title deny-list consulted before the keywords
stage1_filter_denyFirst(job, seen) ==
    LET description == Text(job.description)
        source == Text(job.via)
        full_text == job.title \cup description
    IN  IF job.job_url \in seen THEN Result(FALSE, "seen")
        ELSE IF Search(SOURCE_REJECT, source) \/ Search(SOURCE_REJECT, job.company)
             THEN Result(FALSE, "source")
        ELSE IF Search(T_REJECT_TITLE, job.title) THEN Result(FALSE, "title_reject")
        ELSE IF ~ Search(T_TITLE_KEYWORDS, job.title) THEN Result(FALSE, "title_keywords")
        ELSE IF Search(EASY_APPLY_REJECT, full_text) THEN Result(FALSE, "easy_apply")
        ELSE Result(TRUE, "stage1_passed")

\* test_job_alert.stage1_filter
stage1_filter(job, seen) ==
    LET description == Text(job.description)
        source == Text(job.via)
        full_text == job.title \cup description
    IN  IF job.job_url \in seen THEN Result(FALSE, "seen")
        ELSE IF Search(SOURCE_REJECT, source) \/ Search(SOURCE_REJECT, job.company)
             THEN Result(FALSE, "source")
        ELSE IF ~ t_check_title_match(job.title) THEN Result(FALSE, "title_keywords")
        ELSE IF Search(T_REJECT_TITLE, job.title) THEN Result(FALSE, "title_reject")
        ELSE IF Search(EASY_APPLY_REJECT, full_text) THEN Result(FALSE, "easy_apply")
        ELSE Result(TRUE, "stage1_passed")

\* test_job_alert.stage2_filter_single; job.page is what
\* fetcher.get_job_description(url) returns for the posting (None on any failure)
stage2_filter_single(job) ==
    IF ~ IsLinkedIn(job.job_url) THEN Result(TRUE, "stage2_passed")
    ELSE IF job.page = None \/ job.page = Some({}) THEN Result(TRUE, "stage2_passed")
    ELSE LET description == job.page[1]
         IN  IF Search(CLEARANCE_KEYWORDS, description)
             THEN Result(FALSE, "clearance_required")
             ELSE IF Search(EXPERIENCE_REJECT, description)
                  THEN Result(FALSE, "experience_required")
             ELSE IF Search(SPONSORSHIP_REJECT, description)
                  THEN Result(FALSE, "sponsorship_required")
             ELSE Result(TRUE, "stage2_passed")

-----------------------------------------------------------------------------
(* Bounds of the model and constants of the program *)

\* number of runs of the script in a row
MaxRuns == 2

\* MAX_JOBS_TO_KEEP (1000 in the scripts), scaled to the model's three ids
MAX_JOBS_TO_KEEP == 2

\* most postings one query returns (results_wanted is 10 to 30 in the scripts)
MaxResults == 2

\* job_alert.post_to_slack(message, max_retries=3)
JA_MAX_RETRIES == 3

\* elite_companies.post_to_slack(messages, max_retries=3)
EC_MAX_RETRIES == 3

\* test_job_alert.post_to_slack(message, max_retries=2)
T_MAX_RETRIES == 2

\* elite_companies.post_to_slack: batch_size = 20
batch_size == 20

\* test_job_alert.MAX_STAGE2_JOBS
MAX_STAGE2_JOBS == 50

\* CACHE_EXPIRY_HOURS
CACHE_EXPIRY_HOURS == 24

\* the search terms (job_alert, test_job_alert) or the companies of one batch (elite)
Queries == { "Acme", "Acme Labs" }

Urls == { "linkedin.com/1", "linkedin.com/2", "linkedin.com/3" }

\* an id persisted by an earlier run that the provider no longer returns
OldUrl == "linkedin.com/0"

\* seconds that pass between two runs (an hour, 25 hours); the clock decides
\* nothing but the expiry of elite_companies' cache, and now stays 0 in the
\* runs of the other scripts
Gaps == { 3600, 25 * 3600 }

\* timedelta(hours=CACHE_EXPIRY_HOURS), in seconds
TTL == CACHE_EXPIRY_HOURS * 3600

Min(a, b) == IF a < b THEN a ELSE b

RECURSIVE SeqsUpTo(_, _)
\* the sequences over S of length at most n
SeqsUpTo(S, n) ==
    IF n = 0 THEN { << >> }
    ELSE LET shorter == SeqsUpTo(S, n - 1)
         IN  shorter \cup { Append(q, x) : q \in { r \in shorter : Len(r) = n - 1 }, x \in S }

RECURSIVE SumOver(_, _)
\* sum(d.values()) over the keys K
SumOver(d, K) ==
    IF K = {} THEN 0
    ELSE LET k == CHOOSE x \in K : TRUE IN d[k] + SumOver(d, K \ {k})

Range(q) == { q[i] : i \in 1..Len(q) }

UrlsOf(q) == { q[i].job_url : i \in 1..Len(q) }

ZeroCounts(K) == [ k \in K |-> 0 ]

Pending == [ ok |-> FALSE, reason |-> "pending", raised |-> FALSE ]

\* what scrape_jobs does for a query: raise, or return a frame of postings
ProviderResults(P) ==
    { [ ok |-> FALSE, jobs |-> << >> ] } \cup
    { [ ok |-> TRUE, jobs |-> q ] : q \in SeqsUpTo(P, MaxResults) }

\* requests.post + raise_for_status: TRUE when the webhook answers 2xx.  The
\* webhook is up or down for the whole dispatch of a run, or answers as it
\* likes; before a run's dispatch its state is unknown.  A "silent" webhook
\* takes the request and never answers: requests.post(url, json=...) of
\* job_alert and elite_companies has no timeout and does not return, the one
\* of test_job_alert (timeout=10) raises Timeout, a RequestException.
SinkOutcomes ==
    IF sink = "up" THEN { TRUE }
    ELSE IF sink = "down" THEN { FALSE }
    ELSE IF sink = "silent" THEN (IF prog = "test" THEN { FALSE } ELSE {})
    ELSE BOOLEAN

\* The world outside the process.
\*   webhook: the environment variable with the webhook URL is "set" or
\*            "unset", or set to a server that never answers ("silent")
\*   disk:    open(file, "w") and the write succeed ("ok"), open raises and the
\*            file stays as it was ("denied"), or open truncates the file and
\*            the write raises ("full")
\*   file:    the persisted file is a document the script wrote ("ok"), not
\*            JSON ("invalid_json"), JSON without the entries collection
\*            ("missing_entries"), JSON whose entries collection is null
\*            ("ill_typed_entries"), a cache with an entry that has no
\*            first_seen ("no_timestamp"), or not readable ("unreadable")
\*   calls:   per query, scrape_jobs returns or raises in good time
\*            ("in_time"), only after the 180 s that test_job_alert gives its
\*            fetch loop ("late"), or never ("never")
NormalEnv ==
    [ webhook |-> "set", disk |-> "ok", file |-> "ok",
      calls |-> [ q \in Queries |-> "in_time" ] ]

\* what the webhook does during a run's dispatch.  With the URL unset
\* requests.post(None, ...) raises MissingSchema, a RequestException, at
\* every attempt, as if the webhook were down.
SinkStates ==
    IF env.webhook = "unset" THEN { "down" }
    ELSE IF env.webhook = "silent" THEN { "silent" }
    ELSE { "up", "down" }

Post(first, n, ok) == [ ev |-> "post", first |-> first, n |-> n, ok |-> ok ]

Sleep(d) == [ ev |-> "sleep", d |-> d ]

\* the variables one posting's classification uses
classifyVars == << cur, outcome >>

\* the variables of the seen-jobs stores
storeVars == << seenFile, cacheFile, SEEN_JOBS, cache >>

\* the variables of one batch
batchVars == << jobs, fut, taken, filtered_jobs, filter_counts, stage1_jobs, th >>

\* the variables of the dispatcher
sinkVars == << messages, mi, attempt, sinkLog >>

\* the environment
envVars == << prog, provider, sink, env >>

-----------------------------------------------------------------------------
(* Initial states *)

\* a posting every filter accepts while its id is not seen
GoodJob(url) ==
    Job(url, { "security", "analyst" }, { "acme", "acme labs" }, Some({ "linkedin" }),
        Some({ "monitor alerts" }), {}, Some({ "monitor alerts" }))

\* a posting the title deny-list rejects
SeniorJob(url) ==
    Job(url, { "security", "senior" }, { "acme", "acme labs" }, Some({ "linkedin" }),
        Some({ "monitor alerts" }), {}, Some({ "monitor alerts" }))

\* a posting whose description asks for a clearance
ClearanceJob(url) ==
    Job(url, { "security", "analyst" }, { "acme", "acme labs" }, Some({ "linkedin" }),
        Some({ "security clearance" }), {}, Some({ "security clearance" }))

\* a posting the provider returns without description
NoDescriptionJob(url) ==
    Job(url, { "security", "analyst" }, { "acme", "acme labs" }, Some({ "linkedin" }),
        None, {}, None)

JA_Postings ==
    { GoodJob("linkedin.com/1"), GoodJob("linkedin.com/2"), SeniorJob("linkedin.com/3") }

JA_Reasons == { "seen", "source", "title_keywords", "title_reject", "easy_apply", "passed" }

NoHist ==
    [ prev |-> {}, loaded |-> {}, classified |-> [ q \in Queries |-> 0 ],
      raised |-> {}, saved |-> FALSE, q |-> "" ]

\* nothing is being classified, fetched, filtered or sent
Idle ==
    /\ pending = {}
    /\ jobs = << >>
    /\ fut = << >>
    /\ taken = {}
    /\ filtered_jobs = << >>
    /\ filter_counts = << >>
    /\ stage1_jobs = << >>
    /\ all_new_jobs = << >>
    /\ total_filter_counts = << >>
    /\ th = << >>
    /\ messages = << >>
    /\ mi = 1
    /\ attempt = 0
    /\ sinkLog = << >>
    /\ cur = << >>
    /\ outcome = Pending
    /\ hist = NoHist

\* job_alert is started, whatever the world outside
StartJobAlert ==
    /\ prog = "job_alert"
    /\ pc = "start"
    /\ run = 1
    /\ now = 0
    /\ provider \in [ Queries -> ProviderResults(JA_Postings) ]
    /\ sink = "unknown"
    /\ seenFile \in SUBSET { OldUrl, "linkedin.com/1" }
    /\ cacheFile = << >>
    /\ SEEN_JOBS = {}
    /\ cache = << >>
    /\ Idle

InitJobAlert == StartJobAlert /\ env = NormalEnv

-----------------------------------------------------------------------------
(* job_alert.py *)

\* load_seen_jobs that reads a valid document as one without entries
load_seen_jobs_noEntries(file, kind) ==
    CASE kind \in { "ok", "no_timestamp", "invalid_json", "missing_entries" } ->
             [ raised |-> FALSE, ids |-> {} ]
      [] kind \in { "ill_typed_entries", "unreadable" } -> [ raised |-> TRUE, ids |-> {} ]

\* load_seen_jobs: the set it leaves in SEEN_JOBS, or the exception that
\* leaves it.  Only json.JSONDecodeError is caught; a document without
\* "seen_jobs" gives the default [], set(None) raises TypeError, open() of a
\* file that cannot be read raises OSError.  The entries are bare ids.
load_seen_jobs(file, kind) ==
    CASE kind \in { "ok", "no_timestamp" } -> [ raised |-> FALSE, ids |-> file ]
      [] kind \in { "invalid_json", "missing_entries" } -> [ raised |-> FALSE, ids |-> {} ]
      [] kind \in { "ill_typed_entries", "unreadable" } -> [ raised |-> TRUE, ids |-> {} ]

\* load_seen_jobs, then the first lines of main; an exception of
\* load_seen_jobs, called outside main's try, ends the process
JA_Load ==
    /\ prog = "job_alert" /\ pc = "start"
    /\ LET loaded == load_seen_jobs(seenFile, env.file)
       IN  IF loaded.raised
           THEN /\ pc' = "crashed"
                /\ UNCHANGED << SEEN_JOBS, all_new_jobs, total_filter_counts, pending,
                                hist, sinkLog >>
           ELSE /\ SEEN_JOBS' = loaded.ids
                /\ all_new_jobs' = << >>
                /\ total_filter_counts' = ZeroCounts(JA_Reasons)
                /\ pending' = Queries
                /\ hist' = [ hist EXCEPT !.loaded = loaded.ids,
                                         !.classified = [ q \in Queries |-> 0 ],
                                         !.raised = {}, !.saved = FALSE ]
                /\ sinkLog' = << >>
                /\ pc' = "fetch"
    /\ UNCHANGED << envVars, run, now, seenFile, cacheFile, cache, batchVars,
                    messages, mi, attempt, classifyVars >>

\* JA_TakeResult without the "except" around future.result(): the provider's
\* exception leaves main
JA_TakeResult_uncaught(q) ==
    /\ prog = "job_alert" /\ pc = "fetch"
    /\ q \in pending
    /\ env.calls[q] # "never"
    /\ pending' = pending \ { q }
    /\ hist' = [ hist EXCEPT !.q = IF provider[q].ok /\ provider[q].jobs # << >>
                                    THEN q ELSE "" ]
    /\ IF provider[q].ok /\ provider[q].jobs # << >>
       THEN /\ jobs' = provider[q].jobs
            /\ fut' = [ i \in 1..Len(provider[q].jobs) |-> Pending ]
            /\ taken' = {}
            /\ filtered_jobs' = << >>
            /\ filter_counts' = ZeroCounts(JA_Reasons)
            /\ pc' = "batch"
       ELSE /\ pc' = IF provider[q].ok THEN "fetch" ELSE "done"
            /\ UNCHANGED << jobs, fut, taken, filtered_jobs, filter_counts >>
    /\ UNCHANGED << envVars, run, now, storeVars, stage1_jobs, th, all_new_jobs,
                    total_filter_counts, sinkVars, classifyVars >>

\* main: one turn of "for future in as_completed(future_to_term)", which
\* yields a future once its call has returned or raised, however late: the
\* provider's exception is caught, an empty frame skipped, a frame handed
\* to process_jobs_batch, which submits one filter_job per posting
JA_TakeResult(q) ==
    /\ prog = "job_alert" /\ pc = "fetch"
    /\ q \in pending
    /\ env.calls[q] # "never"
    /\ pending' = pending \ { q }
    /\ hist' = [ hist EXCEPT !.q = IF provider[q].ok /\ provider[q].jobs # << >>
                                    THEN q ELSE "" ]
    /\ IF provider[q].ok /\ provider[q].jobs # << >>
       THEN /\ jobs' = provider[q].jobs
            /\ fut' = [ i \in 1..Len(provider[q].jobs) |-> Pending ]
            /\ taken' = {}
            /\ filtered_jobs' = << >>
            /\ filter_counts' = ZeroCounts(JA_Reasons)
            /\ pc' = "batch"
       ELSE /\ pc' = "fetch"
            /\ UNCHANGED << jobs, fut, taken, filtered_jobs, filter_counts >>
    /\ UNCHANGED << envVars, run, now, storeVars, stage1_jobs, th, all_new_jobs,
                    total_filter_counts, sinkVars, classifyVars >>

\* a pool thread of process_jobs_batch runs filter_job on one posting
JA_FilterJob(i) ==
    /\ prog = "job_alert" /\ pc = "batch"
    /\ i \in DOMAIN fut /\ fut[i] = Pending
    /\ fut' = [ fut EXCEPT ![i] = ja_filter_job(jobs[i], SEEN_JOBS) ]
    /\ hist' = [ hist EXCEPT !.classified[hist.q] = @ + 1 ]
    /\ UNCHANGED << envVars, pc, run, now, storeVars, pending, jobs, taken,
                    filtered_jobs, filter_counts, stage1_jobs, th, all_new_jobs,
                    total_filter_counts, sinkVars, classifyVars >>

\* process_jobs_batch: one turn of "for future in as_completed(future_to_job)"
JA_Collect(i) ==
    /\ prog = "job_alert" /\ pc = "batch"
    /\ i \in DOMAIN fut /\ fut[i] # Pending /\ i \notin taken
    /\ taken' = taken \cup { i }
    /\ filter_counts' = [ filter_counts EXCEPT ![fut[i].reason] = @ + 1 ]
    /\ IF fut[i].ok
       THEN /\ filtered_jobs' = Append(filtered_jobs, jobs[i])
            /\ SEEN_JOBS' = SEEN_JOBS \cup { jobs[i].job_url }
       ELSE UNCHANGED << filtered_jobs, SEEN_JOBS >>
    /\ UNCHANGED << envVars, pc, run, now, seenFile, cacheFile, cache, pending,
                    jobs, fut, stage1_jobs, th, all_new_jobs, total_filter_counts,
                    sinkVars, classifyVars, hist >>

\* process_jobs_batch returns, its locals are gone; main extends all_new_jobs
\* and adds the counts
JA_ReturnBatch ==
    /\ prog = "job_alert" /\ pc = "batch"
    /\ taken = DOMAIN fut
    /\ all_new_jobs' = all_new_jobs \o filtered_jobs
    /\ total_filter_counts' =
           [ k \in JA_Reasons |-> total_filter_counts[k] + filter_counts[k] ]
    /\ pc' = "fetch"
    /\ jobs' = << >> /\ fut' = << >> /\ taken' = {}
    /\ filtered_jobs' = << >> /\ filter_counts' = << >> /\ stage1_jobs' = << >>
    /\ hist' = [ hist EXCEPT !.q = "" ]
    /\ UNCHANGED << envVars, run, now, storeVars, pending, th, sinkVars, classifyVars >>

\* main: the message(s) of the run, the header first
JA_BuildMessages ==
    /\ prog = "job_alert" /\ pc = "fetch"
    /\ pending = {}
    /\ messages' =
           IF all_new_jobs = << >> THEN << [ kind |-> "none" ] >>
           ELSE << [ kind |-> "header",
                     processed |-> SumOver(total_filter_counts, JA_Reasons),
                     posted |-> Len(all_new_jobs) ] >>
                \o [ i \in 1..Len(all_new_jobs) |->
                       [ kind |-> "job", url |-> all_new_jobs[i].job_url ] ]
    /\ mi' = 1
    /\ attempt' = 0
    /\ pc' = "post"
    /\ sink' \in SinkStates
    /\ UNCHANGED << prog, provider, env, run, now, storeVars, pending, batchVars,
                    all_new_jobs, total_filter_counts, sinkLog, classifyVars, hist >>

\* JA_Post with main's sleep only after a message that was delivered
JA_Post_noPace ==
    /\ prog = "job_alert" /\ pc = "post"
    /\ mi <= Len(messages)
    /\ \E ok \in SinkOutcomes :
         LET pace == IF messages[mi].kind = "none" \/ ~ ok THEN << >> ELSE << Sleep(1) >>
         IN  IF ok \/ attempt = JA_MAX_RETRIES - 1
             THEN /\ sinkLog' = (sinkLog \o << Post(mi, 1, ok) >>) \o pace
                  /\ mi' = mi + 1
                  /\ attempt' = 0
             ELSE /\ sinkLog' = sinkLog \o << Post(mi, 1, ok), Sleep(1 * (attempt + 1)) >>
                  /\ attempt' = attempt + 1
                  /\ mi' = mi
    /\ UNCHANGED << envVars, pc, run, now, storeVars, pending, batchVars,
                    all_new_jobs, total_filter_counts, messages, classifyVars, hist >>

\* JA_Post with the exception of the last attempt leaving post_to_slack and main
JA_Post_fatal ==
    /\ prog = "job_alert" /\ pc = "post"
    /\ mi <= Len(messages)
    /\ \E ok \in SinkOutcomes :
         LET pace == IF messages[mi].kind = "none" THEN << >> ELSE << Sleep(1) >>
         IN  IF ok
             THEN /\ sinkLog' = (sinkLog \o << Post(mi, 1, ok) >>) \o pace
                  /\ mi' = mi + 1
                  /\ attempt' = 0
                  /\ pc' = pc
             ELSE IF attempt = JA_MAX_RETRIES - 1
             THEN /\ sinkLog' = sinkLog \o << Post(mi, 1, ok) >>
                  /\ pc' = "crashed"
                  /\ UNCHANGED << mi, attempt >>
             ELSE /\ sinkLog' = sinkLog \o << Post(mi, 1, ok), Sleep(1 * (attempt + 1)) >>
                  /\ attempt' = attempt + 1
                  /\ mi' = mi
                  /\ pc' = pc
    /\ UNCHANGED << envVars, run, now, storeVars, pending, batchVars,
                    all_new_jobs, total_filter_counts, messages, classifyVars, hist >>

\* JA_Post with the same wait of 1 s after every failed attempt
JA_Post_constantWait ==
    /\ prog = "job_alert" /\ pc = "post"
    /\ mi <= Len(messages)
    /\ \E ok \in SinkOutcomes :
         LET pace == IF messages[mi].kind = "none" THEN << >> ELSE << Sleep(1) >>
         IN  IF ok \/ attempt = JA_MAX_RETRIES - 1
             THEN /\ sinkLog' = (sinkLog \o << Post(mi, 1, ok) >>) \o pace
                  /\ mi' = mi + 1
                  /\ attempt' = 0
             ELSE /\ sinkLog' = sinkLog \o << Post(mi, 1, ok), Sleep(1) >>
                  /\ attempt' = attempt + 1
                  /\ mi' = mi
    /\ UNCHANGED << envVars, pc, run, now, storeVars, pending, batchVars,
                    all_new_jobs, total_filter_counts, messages, classifyVars, hist >>

\* post_to_slack(message): one attempt of the retry loop; after the call
\* returns main sleeps 1 s, except after the "no new jobs" message
JA_Post ==
    /\ prog = "job_alert" /\ pc = "post"
    /\ mi <= Len(messages)
    /\ \E ok \in SinkOutcomes :
         LET pace == IF messages[mi].kind = "none" THEN << >> ELSE << Sleep(1) >>
         IN  IF ok \/ attempt = JA_MAX_RETRIES - 1
             THEN /\ sinkLog' = (sinkLog \o << Post(mi, 1, ok) >>) \o pace
                  /\ mi' = mi + 1
                  /\ attempt' = 0
             ELSE /\ sinkLog' = sinkLog \o << Post(mi, 1, ok), Sleep(1 * (attempt + 1)) >>
                  /\ attempt' = attempt + 1
                  /\ mi' = mi
    /\ UNCHANGED << envVars, pc, run, now, storeVars, pending, batchVars,
                    all_new_jobs, total_filter_counts, messages, classifyVars, hist >>

\* LastOfSet with the slice one element short
LastOfSet_short(S, n) == { T \in SUBSET S : Cardinality(T) = Min(n - 1, Cardinality(S)) }

\* list(SEEN_JOBS)[-MAX_JOBS_TO_KEEP:]: the last elements of the set in its
\* iteration order, which is any order
LastOfSet(S, n) == { T \in SUBSET S : Cardinality(T) = Min(n, Cardinality(S)) }

\* save_seen_jobs: the file gets the kept ids; or open() raises and the
\* file stays as it was; or open() has truncated the file and the write raises
save_seen_jobs ==
    CASE env.disk = "ok" ->
             /\ \E kept \in LastOfSet(SEEN_JOBS, MAX_JOBS_TO_KEEP) : seenFile' = kept
             /\ env' = [ env EXCEPT !.file = "ok" ]
      [] env.disk = "denied" -> UNCHANGED << seenFile, env >>
      [] env.disk = "full" ->
             /\ seenFile' = {}
             /\ env' = [ env EXCEPT !.file = "invalid_json" ]

\* main: all messages are sent; save_seen_jobs and the end of main; main's
\* "except Exception" prints the exception of save_seen_jobs and raises it again
JA_Save ==
    /\ prog = "job_alert" /\ pc = "post"
    /\ mi > Len(messages)
    /\ save_seen_jobs
    /\ hist' = [ hist EXCEPT !.saved = (env.disk = "ok") ]
    /\ pc' = IF env.disk = "ok" THEN "done" ELSE "crashed"
    /\ UNCHANGED << prog, provider, sink, run, now, cacheFile, SEEN_JOBS, cache,
                    pending, batchVars, all_new_jobs, total_filter_counts, sinkVars,
                    classifyVars >>

\* the process ends, and with it its memory; the scheduler starts the script
\* again later, with the files the run left
NextRun ==
    /\ pc = "done"
    /\ run < MaxRuns
    /\ run' = run + 1
    /\ \E d \in Gaps : now' = IF prog = "elite" THEN now + d ELSE now
    /\ hist' = [ NoHist EXCEPT !.prev = hist.prev \cup UrlsOf(all_new_jobs) ]
    /\ pc' = "start"
    /\ SEEN_JOBS' = {} /\ cache' = << >>
    /\ pending' = {} /\ jobs' = << >> /\ fut' = << >> /\ taken' = {}
    /\ filtered_jobs' = << >> /\ filter_counts' = << >> /\ stage1_jobs' = << >>
    /\ th' = << >> /\ all_new_jobs' = << >> /\ total_filter_counts' = << >>
    /\ messages' = << >> /\ mi' = 1 /\ attempt' = 0 /\ sinkLog' = << >>
    /\ sink' = "unknown"
    /\ UNCHANGED << prog, provider, env, seenFile, cacheFile, classifyVars >>

\* the steps of one run of job_alert
RunJobAlert ==
    \/ JA_Load
    \/ \E q \in Queries : JA_TakeResult(q)
    \/ \E i \in 1..MaxResults : JA_FilterJob(i)
    \/ \E i \in 1..MaxResults : JA_Collect(i)
    \/ JA_ReturnBatch
    \/ JA_BuildMessages
    \/ JA_Post
    \/ JA_Save

NextJobAlert == RunJobAlert \/ NextRun

SpecJobAlert == InitJobAlert /\ [][NextJobAlert]_vars

-----------------------------------------------------------------------------
(* elite_companies.py *)

EC_Postings ==
    { GoodJob("linkedin.com/1"), ClearanceJob("linkedin.com/2"),
      NoDescriptionJob("linkedin.com/3") }

EC_Reasons ==
    { "cached", "company_mismatch", "bad_source", "title_reject",
      "title_missing_keywords", "description_reject", "passed" }

\* first_seen of the entries the cache file holds before the first run
InitSeen == { 0 - TTL, 1 - TTL }

\* the cache file before the first run: the old id not at all, just expired or
\* still fresh, an id the provider returns not at all or fresh
CacheFiles ==
    UNION { { f \in [ D -> InitSeen ] :
                "linkedin.com/1" \in D => f["linkedin.com/1"] = 1 - TTL } :
            D \in SUBSET { OldUrl, "linkedin.com/1" } }

\* a worker of process_company_batch before it runs
NewThread == [ pc |-> "scrape", i |-> 1, company_jobs |-> << >>, res |-> Pending, tmp |-> 0 ]

\* elite_companies is started, whatever the world outside
StartElite ==
    /\ prog = "elite"
    /\ pc = "start"
    /\ run = 1
    /\ now = 0
    /\ provider \in [ Queries -> ProviderResults(EC_Postings) ]
    /\ sink = "unknown"
    /\ seenFile = {}
    /\ cacheFile \in CacheFiles
    /\ SEEN_JOBS = {}
    /\ cache = << >>
    /\ Idle

InitElite == StartElite /\ env = NormalEnv

\* job.to_dict() with job_dict['company_searched'] = company
Tagged(job, company) ==
    [ job_url |-> job.job_url, title |-> job.title, company |-> job.company,
      via |-> job.via, description |-> job.description,
      apply_text |-> job.apply_text, page |-> job.page,
      company_searched |-> company ]

\* main: the entries of the loaded cache that are kept
Unexpired(jobsmap, t) ==
    LET cache_expiry == t - TTL
        kept == { u \in DOMAIN jobsmap : jobsmap[u] > cache_expiry }
    IN  [ u \in kept |-> jobsmap[u] ]

\* cache["jobs"][url] = {"first_seen": now, ...}
Put(jobsmap, url, t) ==
    [ u \in (DOMAIN jobsmap) \cup { url } |-> IF u = url THEN t ELSE jobsmap[u] ]

\* load_cache: the document json.load returns, the default document on
\* json.JSONDecodeError, or the exception of open() on a file that cannot be
\* read; shape is what of the document main's sweep will trip over
load_cache(file, kind) ==
    CASE kind = "unreadable" -> [ raised |-> TRUE, shape |-> kind, jobs |-> << >> ]
      [] kind = "invalid_json" -> [ raised |-> FALSE, shape |-> "ok", jobs |-> << >> ]
      [] OTHER -> [ raised |-> FALSE, shape |-> kind, jobs |-> file ]

\* main: load_cache, the expiry sweep, and the call of process_company_batch,
\* which submits process_single_company for every company of the batch.  The
\* sweep raises KeyError on a document without "jobs" or an entry without
\* "first_seen" and AttributeError on "jobs" without items(); nothing catches
\* it, nor the exception of load_cache
EC_Load ==
    /\ prog = "elite" /\ pc = "start"
    /\ LET doc == load_cache(cacheFile, env.file)
       IN  IF doc.raised \/ doc.shape # "ok"
           THEN /\ pc' = "crashed"
                /\ UNCHANGED << cache, all_new_jobs, total_filter_counts, filtered_jobs,
                                filter_counts, th, pending, hist, sinkLog >>
           ELSE /\ cache' = Unexpired(doc.jobs, now)
                /\ all_new_jobs' = << >>
                /\ total_filter_counts' = ZeroCounts(EC_Reasons)
                /\ filtered_jobs' = << >>
                /\ filter_counts' = ZeroCounts(EC_Reasons)
                /\ th' = [ c \in Queries |-> NewThread ]
                /\ pending' = Queries
                /\ hist' = [ hist EXCEPT !.loaded = DOMAIN Unexpired(doc.jobs, now),
                                         !.classified = [ q \in Queries |-> 0 ],
                                         !.raised = {}, !.saved = FALSE ]
                /\ sinkLog' = << >>
                /\ pc' = "batch"
    /\ UNCHANGED << envVars, run, now, seenFile, cacheFile, SEEN_JOBS, jobs, fut,
                    taken, stage1_jobs, messages, mi, attempt, classifyVars >>

\* process_single_company: scrape_jobs returns or raises (then [] is
\* returned), however late
EC_Scrape(c) ==
    /\ prog = "elite" /\ pc = "batch"
    /\ th[c].pc = "scrape"
    /\ env.calls[c] # "never"
    /\ th' = [ th EXCEPT ![c].pc =
                 IF provider[c].ok /\ provider[c].jobs # << >> THEN "filter"
                 ELSE "returned" ]
    /\ UNCHANGED << envVars, pc, run, now, storeVars, pending, jobs, fut, taken,
                    filtered_jobs, filter_counts, stage1_jobs, all_new_jobs,
                    total_filter_counts, sinkVars, classifyVars, hist >>

\* process_single_company: filter_job on the next posting; an exception
\* leaves the loop and the function returns []
EC_Filter(c) ==
    /\ prog = "elite" /\ pc = "batch"
    /\ th[c].pc = "filter"
    /\ LET res == ec_filter_job(provider[c].jobs[th[c].i], c, cache)
       IN  IF res.raised
           THEN /\ th' = [ th EXCEPT ![c].pc = "returned", ![c].company_jobs = << >> ]
                /\ hist' = [ hist EXCEPT !.raised = @ \cup { c } ]
           ELSE /\ th' = [ th EXCEPT ![c].pc = "count", ![c].res = res ]
                /\ hist' = [ hist EXCEPT !.classified[c] = @ + 1 ]
    /\ UNCHANGED << envVars, pc, run, now, storeVars, pending, jobs, fut, taken,
                    filtered_jobs, filter_counts, stage1_jobs, all_new_jobs,
                    total_filter_counts, sinkVars, classifyVars >>

\* stats[reason] += 1, first half: the thread reads the counter
EC_StatsRead(c) ==
    /\ prog = "elite" /\ pc = "batch"
    /\ th[c].pc = "count"
    /\ th' = [ th EXCEPT ![c].pc = "record", ![c].tmp = filter_counts[th[c].res.reason] ]
    /\ UNCHANGED << envVars, pc, run, now, storeVars, pending, jobs, fut, taken,
                    filtered_jobs, filter_counts, stage1_jobs, all_new_jobs,
                    total_filter_counts, sinkVars, classifyVars, hist >>

\* stats[reason] += 1, second half: the thread stores the counter; then, for a
\* posting that passed, company_jobs.append and the write to the cache
EC_Record(c) ==
    /\ prog = "elite" /\ pc = "batch"
    /\ th[c].pc = "record"
    /\ LET job == provider[c].jobs[th[c].i]
           last == th[c].i = Len(provider[c].jobs)
       IN  /\ filter_counts' = [ filter_counts EXCEPT ![th[c].res.reason] = th[c].tmp + 1 ]
           /\ th' = [ th EXCEPT ![c].pc = IF last THEN "returned" ELSE "filter",
                                ![c].i = @ + 1,
                                ![c].company_jobs =
                                    IF th[c].res.ok THEN Append(@, Tagged(job, c)) ELSE @ ]
           /\ cache' = IF th[c].res.ok THEN Put(cache, job.job_url, now) ELSE cache
    /\ UNCHANGED << envVars, pc, run, now, seenFile, cacheFile, SEEN_JOBS, pending,
                    jobs, fut, taken, filtered_jobs, stage1_jobs, all_new_jobs,
                    total_filter_counts, sinkVars, classifyVars, hist >>

\* process_company_batch: one turn of "for future in as_completed(...)"
EC_Collect(c) ==
    /\ prog = "elite" /\ pc = "batch"
    /\ c \in pending /\ th[c].pc = "returned"
    /\ pending' = pending \ { c }
    /\ filtered_jobs' = filtered_jobs \o th[c].company_jobs
    /\ UNCHANGED << envVars, pc, run, now, storeVars, jobs, fut, taken,
                    filter_counts, stage1_jobs, th, all_new_jobs,
                    total_filter_counts, sinkVars, classifyVars, hist >>

\* save_cache updating the document of the file instead of replacing it: the
\* entries of the file that the cache no longer holds stay
save_cache_merge ==
    CASE env.disk = "ok" ->
             /\ cacheFile' = [ u \in (DOMAIN cacheFile) \cup (DOMAIN cache) |->
                                 IF u \in DOMAIN cache THEN cache[u] ELSE cacheFile[u] ]
             /\ env' = [ env EXCEPT !.file = "ok" ]
      [] env.disk = "denied" -> UNCHANGED << cacheFile, env >>
      [] env.disk = "full" ->
             /\ cacheFile' = << >>
             /\ env' = [ env EXCEPT !.file = "invalid_json" ]

\* save_cache: the file gets the whole cache; or open() raises and the file
\* stays as it was; or open() has truncated the file and the write raises
save_cache ==
    CASE env.disk = "ok" ->
             /\ cacheFile' = cache
             /\ env' = [ env EXCEPT !.file = "ok" ]
      [] env.disk = "denied" -> UNCHANGED << cacheFile, env >>
      [] env.disk = "full" ->
             /\ cacheFile' = << >>
             /\ env' = [ env EXCEPT !.file = "invalid_json" ]

\* process_company_batch returns, its locals are gone; main extends all_jobs,
\* adds the stats and saves the cache; nothing catches the exception of
\* save_cache
EC_EndBatch ==
    /\ prog = "elite" /\ pc = "batch"
    /\ pending = {}
    /\ all_new_jobs' = all_new_jobs \o filtered_jobs
    /\ total_filter_counts' =
           [ k \in EC_Reasons |-> total_filter_counts[k] + filter_counts[k] ]
    /\ save_cache
    /\ hist' = [ hist EXCEPT !.saved = (env.disk = "ok") ]
    /\ pc' = IF env.disk = "ok" THEN "build" ELSE "crashed"
    /\ th' = << >> /\ filtered_jobs' = << >> /\ filter_counts' = << >>
    /\ UNCHANGED << prog, provider, sink, run, now, seenFile, SEEN_JOBS, cache,
                    pending, jobs, fut, taken, stage1_jobs, sinkVars, classifyVars >>

RECURSIVE Distinct(_)
\* the keys of grouped_jobs in insertion order
Distinct(q) ==
    IF q = << >> THEN << >>
    ELSE LET front == Distinct(SubSeq(q, 1, Len(q) - 1))
         IN  IF q[Len(q)] \in Range(front) THEN front ELSE Append(front, q[Len(q)])

RECURSIVE GroupMessages_newestFirst(_, _)
\* GroupMessages with the postings of a company listed newest first
GroupMessages_newestFirst(companies, all) ==
    IF companies = << >> THEN << >>
    ELSE LET c == Head(companies)
             mine == SelectSeq(all, LAMBDA j : j.company_searched = c)
         IN  (<< [ kind |-> "company", company |-> c ] >>
              \o [ i \in 1..Len(mine) |->
                     [ kind |-> "job", url |-> mine[Len(mine) + 1 - i].job_url,
                       idx |-> i, company |-> c ] ])
             \o GroupMessages_newestFirst(Tail(companies), all)

RECURSIVE GroupMessages(_, _)
\* main: per company of grouped_jobs its header and then its postings
GroupMessages(companies, all) ==
    IF companies = << >> THEN << >>
    ELSE LET c == Head(companies)
             mine == SelectSeq(all, LAMBDA j : j.company_searched = c)
         IN  (<< [ kind |-> "company", company |-> c ] >>
              \o [ i \in 1..Len(mine) |->
                     [ kind |-> "job", url |-> mine[i].job_url, idx |-> i, company |-> c ] ])
             \o GroupMessages(Tail(companies), all)

\* main: the messages of the run
EC_BuildMessages ==
    /\ prog = "elite" /\ pc = "build"
    /\ messages' =
           IF all_new_jobs = << >> THEN << [ kind |-> "none" ] >>
           ELSE (<< [ kind |-> "header" ],
                    [ kind |-> "stats",
                      processed |-> SumOver(total_filter_counts, EC_Reasons),
                      posted |-> Len(all_new_jobs) ] >>
                 \o GroupMessages(
                        Distinct([ i \in 1..Len(all_new_jobs) |->
                                     all_new_jobs[i].company_searched ]),
                        all_new_jobs))
                \o << [ kind |-> "total", posted |-> Len(all_new_jobs) ] >>
    /\ mi' = 1
    /\ attempt' = 0
    /\ pc' = "post"
    /\ sink' \in SinkStates
    /\ UNCHANGED << prog, provider, env, run, now, storeVars, pending, batchVars,
                    all_new_jobs, total_filter_counts, sinkLog, classifyVars, hist >>

\* EC_Post without the "break": the retry loop goes on after a success
EC_Post_noBreak ==
    /\ prog = "elite" /\ pc = "post"
    /\ mi <= Len(messages)
    /\ \E ok \in SinkOutcomes :
         LET n == Min(batch_size, Len(messages) - mi + 1)
             wait == IF ok THEN << >> ELSE << Sleep(1 * (attempt + 1)) >>
         IN  IF attempt = EC_MAX_RETRIES - 1
             THEN /\ sinkLog' = (sinkLog \o << Post(mi, n, ok) >>) \o wait \o << Sleep(1) >>
                  /\ mi' = mi + batch_size
                  /\ attempt' = 0
             ELSE /\ sinkLog' = (sinkLog \o << Post(mi, n, ok) >>) \o wait
                  /\ attempt' = attempt + 1
                  /\ mi' = mi
    /\ UNCHANGED << envVars, pc, run, now, storeVars, pending, batchVars,
                    all_new_jobs, total_filter_counts, messages, classifyVars, hist >>

\* EC_Post with the pacing sleep before the attempts of a batch and the next
\* batch starting at the last message of the one before
EC_Post_overlap ==
    /\ prog = "elite" /\ pc = "post"
    /\ mi <= Len(messages)
    /\ \E ok \in SinkOutcomes :
         LET n == Min(batch_size, Len(messages) - mi + 1)
         IN  IF ok
             THEN /\ sinkLog' = sinkLog \o << Post(mi, n, TRUE), Sleep(1) >>
                  /\ mi' = mi + n - (IF mi + n > Len(messages) THEN 0 ELSE 1)
                  /\ attempt' = 0
             ELSE IF attempt = EC_MAX_RETRIES - 1
             THEN /\ sinkLog' = sinkLog \o << Post(mi, n, FALSE),
                                              Sleep(1 * (attempt + 1)), Sleep(1) >>
                  /\ mi' = mi + batch_size
                  /\ attempt' = 0
             ELSE /\ sinkLog' = sinkLog \o << Post(mi, n, FALSE), Sleep(1 * (attempt + 1)) >>
                  /\ attempt' = attempt + 1
                  /\ mi' = mi
    /\ UNCHANGED << envVars, pc, run, now, storeVars, pending, batchVars,
                    all_new_jobs, total_filter_counts, messages, classifyVars, hist >>

\* post_to_slack(messages): one attempt of the retry loop for the batch
\* messages[mi : mi + batch_size]; every failed attempt is followed by its
\* sleep, and the batch by the sleep "between batches"
EC_Post ==
    /\ prog = "elite" /\ pc = "post"
    /\ mi <= Len(messages)
    /\ \E ok \in SinkOutcomes :
         LET n == Min(batch_size, Len(messages) - mi + 1)
         IN  IF ok
             THEN /\ sinkLog' = sinkLog \o << Post(mi, n, TRUE), Sleep(1) >>
                  /\ mi' = mi + batch_size
                  /\ attempt' = 0
             ELSE IF attempt = EC_MAX_RETRIES - 1
             THEN /\ sinkLog' = sinkLog \o << Post(mi, n, FALSE),
                                              Sleep(1 * (attempt + 1)), Sleep(1) >>
                  /\ mi' = mi + batch_size
                  /\ attempt' = 0
             ELSE /\ sinkLog' = sinkLog \o << Post(mi, n, FALSE), Sleep(1 * (attempt + 1)) >>
                  /\ attempt' = attempt + 1
                  /\ mi' = mi
    /\ UNCHANGED << envVars, pc, run, now, storeVars, pending, batchVars,
                    all_new_jobs, total_filter_counts, messages, classifyVars, hist >>

\* post_to_slack returns and main ends
EC_Done ==
    /\ prog = "elite" /\ pc = "post"
    /\ mi > Len(messages)
    /\ pc' = "done"
    /\ UNCHANGED << envVars, run, now, storeVars, pending, batchVars, all_new_jobs,
                    total_filter_counts, sinkVars, classifyVars, hist >>

\* the steps of one run of elite_companies
RunElite ==
    \/ EC_Load
    \/ \E c \in Queries : EC_Scrape(c)
    \/ \E c \in Queries : EC_Filter(c)
    \/ \E c \in Queries : EC_StatsRead(c)
    \/ \E c \in Queries : EC_Record(c)
    \/ \E c \in Queries : EC_Collect(c)
    \/ EC_EndBatch
    \/ EC_BuildMessages
    \/ EC_Post
    \/ EC_Done

NextElite == RunElite \/ NextRun

SpecElite == InitElite /\ [][NextElite]_vars

-----------------------------------------------------------------------------
(* test_job_alert.py *)

T_Postings ==
    { GoodJob("linkedin.com/1"), ClearanceJob("linkedin.com/2"), SeniorJob("linkedin.com/3") }

T_Reasons ==
    { "seen", "source", "title_keywords", "title_reject", "easy_apply",
      "stage1_passed", "clearance_required", "experience_required",
      "sponsorship_required", "stage2_passed" }

\* test_job_alert is started, whatever the world outside
StartTest ==
    /\ prog = "test"
    /\ pc = "start"
    /\ run = 1
    /\ now = 0
    /\ provider \in [ Queries -> ProviderResults(T_Postings) ]
    /\ sink = "unknown"
    /\ seenFile \in SUBSET { OldUrl, "linkedin.com/1" }
    /\ cacheFile = << >>
    /\ SEEN_JOBS = {}
    /\ cache = << >>
    /\ Idle

InitTest == StartTest /\ env = NormalEnv

\* the first lines of main: it returns at once when SLACK_TEST is not set;
\* else load_seen_jobs, whose exception, outside main's try, ends the process
T_Load ==
    /\ prog = "test" /\ pc = "start"
    /\ LET loaded == load_seen_jobs(seenFile, env.file)
       IN  IF env.webhook = "unset"
           THEN /\ pc' = "done"
                /\ UNCHANGED << SEEN_JOBS, all_new_jobs, total_filter_counts, pending,
                                hist, sinkLog >>
           ELSE IF loaded.raised
           THEN /\ pc' = "crashed"
                /\ UNCHANGED << SEEN_JOBS, all_new_jobs, total_filter_counts, pending,
                                hist, sinkLog >>
           ELSE /\ SEEN_JOBS' = loaded.ids
                /\ all_new_jobs' = << >>
                /\ total_filter_counts' = ZeroCounts(T_Reasons)
                /\ pending' = Queries
                /\ hist' = [ hist EXCEPT !.loaded = loaded.ids,
                                         !.classified = [ q \in Queries |-> 0 ],
                                         !.raised = {}, !.saved = FALSE ]
                /\ sinkLog' = << >>
                /\ pc' = "fetch"
    /\ UNCHANGED << envVars, run, now, seenFile, cacheFile, cache, batchVars,
                    messages, mi, attempt, classifyVars >>

RECURSIVE Stage1Loop(_, _, _, _)
\* process_jobs_batch, "for job in jobs_batch.itertuples()": stage1_filter,
\* the count, and for a posting that passes the append and SEEN_JOBS.add
Stage1Loop(batch, seen, counts, passed) ==
    IF batch = << >> THEN [ seen |-> seen, counts |-> counts, stage1_jobs |-> passed ]
    ELSE LET job == Head(batch)
             res == stage1_filter(job, seen)
             counted == [ counts EXCEPT ![res.reason] = @ + 1 ]
         IN  IF res.ok
             THEN Stage1Loop(Tail(batch), seen \cup { job.job_url }, counted,
                             Append(passed, job))
             ELSE Stage1Loop(Tail(batch), seen, counted, passed)

\* main: one turn of "for future in as_completed(future_to_term,
\* timeout=180)", which yields a future whose call returned or raised within
\* the 180 s; a frame goes to process_jobs_batch, which runs stage 1 on every
\* posting, keeps the postings that are not LinkedIn's and submits
\* stage2_filter_single for the first MAX_STAGE2_JOBS LinkedIn postings
T_TakeResult(q) ==
    /\ prog = "test" /\ pc = "fetch"
    /\ q \in pending
    /\ env.calls[q] = "in_time"
    /\ pending' = pending \ { q }
    /\ IF provider[q].ok /\ provider[q].jobs # << >>
       THEN LET s1 == Stage1Loop(provider[q].jobs, SEEN_JOBS, ZeroCounts(T_Reasons), << >>)
                linkedin_jobs == SelectSeq(s1.stage1_jobs, LAMBDA j : IsLinkedIn(j.job_url))
                other_jobs == SelectSeq(s1.stage1_jobs, LAMBDA j : ~ IsLinkedIn(j.job_url))
                jobs_to_process ==
                    SubSeq(linkedin_jobs, 1, Min(MAX_STAGE2_JOBS, Len(linkedin_jobs)))
            IN  /\ SEEN_JOBS' = s1.seen
                /\ filter_counts' = s1.counts
                /\ stage1_jobs' = s1.stage1_jobs
                /\ filtered_jobs' = other_jobs
                /\ jobs' = jobs_to_process
                /\ fut' = [ i \in 1..Len(jobs_to_process) |-> Pending ]
                /\ taken' = {}
                /\ hist' = [ hist EXCEPT !.q = q,
                                         !.classified[q] = Len(provider[q].jobs) ]
                /\ pc' = "stage2"
       ELSE /\ pc' = "fetch"
            /\ hist' = hist
            /\ UNCHANGED << SEEN_JOBS, jobs, fut, taken, filtered_jobs, filter_counts,
                            stage1_jobs >>
    /\ UNCHANGED << envVars, run, now, seenFile, cacheFile, cache, th, all_new_jobs,
                    total_filter_counts, sinkVars, classifyVars >>

\* a pool thread of process_jobs_batch runs stage2_filter_single on one posting
T_Stage2(i) ==
    /\ prog = "test" /\ pc = "stage2"
    /\ i \in DOMAIN fut /\ fut[i] = Pending
    /\ fut' = [ fut EXCEPT ![i] = stage2_filter_single(jobs[i]) ]
    /\ UNCHANGED << envVars, pc, run, now, storeVars, pending, jobs, taken,
                    filtered_jobs, filter_counts, stage1_jobs, th, all_new_jobs,
                    total_filter_counts, sinkVars, classifyVars, hist >>

\* process_jobs_batch: one turn of "for future in as_completed(future_to_job)"
T_Collect(i) ==
    /\ prog = "test" /\ pc = "stage2"
    /\ i \in DOMAIN fut /\ fut[i] # Pending /\ i \notin taken
    /\ taken' = taken \cup { i }
    /\ filter_counts' = [ filter_counts EXCEPT ![fut[i].reason] = @ + 1 ]
    /\ filtered_jobs' = IF fut[i].ok THEN Append(filtered_jobs, jobs[i]) ELSE filtered_jobs
    /\ UNCHANGED << envVars, pc, run, now, storeVars, pending, jobs, fut,
                    stage1_jobs, th, all_new_jobs, total_filter_counts, sinkVars,
                    classifyVars, hist >>

\* process_jobs_batch returns, its locals are gone; main extends all_new_jobs
\* and adds the counts
T_ReturnBatch ==
    /\ prog = "test" /\ pc = "stage2"
    /\ taken = DOMAIN fut
    /\ all_new_jobs' = all_new_jobs \o filtered_jobs
    /\ total_filter_counts' =
           [ k \in T_Reasons |-> total_filter_counts[k] + filter_counts[k] ]
    /\ pc' = "fetch"
    /\ jobs' = << >> /\ fut' = << >> /\ taken' = {}
    /\ filtered_jobs' = << >> /\ filter_counts' = << >> /\ stage1_jobs' = << >>
    /\ hist' = [ hist EXCEPT !.q = "" ]
    /\ UNCHANGED << envVars, run, now, storeVars, pending, th, sinkVars, classifyVars >>

\* main: the one message of the run, statistics and every posting in it
T_BuildMessage ==
    /\ prog = "test" /\ pc = "fetch"
    /\ pending = {}
    /\ messages' =
           IF all_new_jobs = << >> THEN << [ kind |-> "none" ] >>
           ELSE << [ kind |-> "digest",
                     processed |-> SumOver(total_filter_counts, T_Reasons),
                     posted |-> Len(all_new_jobs),
                     urls |-> [ i \in 1..Len(all_new_jobs) |-> all_new_jobs[i].job_url ] ] >>
    /\ mi' = 1
    /\ attempt' = 0
    /\ pc' = "post"
    /\ sink' \in SinkStates
    /\ UNCHANGED << prog, provider, env, run, now, storeVars, pending, batchVars,
                    all_new_jobs, total_filter_counts, sinkLog, classifyVars, hist >>

\* post_to_slack(message): one attempt of the retry loop
T_Post ==
    /\ prog = "test" /\ pc = "post"
    /\ mi <= Len(messages)
    /\ \E ok \in SinkOutcomes :
         IF ok \/ attempt = T_MAX_RETRIES - 1
         THEN /\ sinkLog' = Append(sinkLog, Post(mi, 1, ok))
              /\ mi' = mi + 1
              /\ attempt' = 0
         ELSE /\ sinkLog' = sinkLog \o << Post(mi, 1, ok), Sleep(1) >>
              /\ attempt' = attempt + 1
              /\ mi' = mi
    /\ UNCHANGED << envVars, pc, run, now, storeVars, pending, batchVars,
                    all_new_jobs, total_filter_counts, messages, classifyVars, hist >>

\* main: the message is sent; save_seen_jobs and the end of main; main's
\* "except Exception" prints the exception of save_seen_jobs and raises it again
T_Save ==
    /\ prog = "test" /\ pc = "post"
    /\ mi > Len(messages)
    /\ save_seen_jobs
    /\ hist' = [ hist EXCEPT !.saved = (env.disk = "ok") ]
    /\ pc' = IF env.disk = "ok" THEN "done" ELSE "crashed"
    /\ UNCHANGED << prog, provider, sink, run, now, cacheFile, SEEN_JOBS, cache,
                    pending, batchVars, all_new_jobs, total_filter_counts, sinkVars,
                    classifyVars >>

\* main: the 180 s of as_completed are over while a call is still in
\* flight: as_completed raises TimeoutError in the "for" statement, outside
\* the try of the loop body; the exception leaves the "with" block, whose
\* exit is executor.shutdown(wait=True)
T_Timeout ==
    /\ prog = "test" /\ pc = "fetch"
    /\ \E q \in pending : env.calls[q] # "in_time"
    /\ pc' = "joining"
    /\ UNCHANGED << envVars, run, now, storeVars, pending, batchVars, all_new_jobs,
                    total_filter_counts, sinkVars, classifyVars, hist >>

\* main: shutdown(wait=True) returns when every call in flight has returned;
\* main's "except Exception" prints the TimeoutError and raises it again
T_Joined ==
    /\ prog = "test" /\ pc = "joining"
    /\ \A q \in pending : env.calls[q] # "never"
    /\ pc' = "crashed"
    /\ UNCHANGED << envVars, run, now, storeVars, pending, batchVars, all_new_jobs,
                    total_filter_counts, sinkVars, classifyVars, hist >>

\* the steps of one run of test_job_alert
RunTest ==
    \/ T_Load
    \/ \E q \in Queries : T_TakeResult(q)
    \/ \E i \in 1..MaxResults : T_Stage2(i)
    \/ \E i \in 1..MaxResults : T_Collect(i)
    \/ T_ReturnBatch
    \/ T_BuildMessage
    \/ T_Post
    \/ T_Save

NextTest == RunTest \/ NextRun

SpecTest == InitTest /\ [][NextTest]_vars

\* the three scripts
Init == InitJobAlert \/ InitElite \/ InitTest

Next == NextJobAlert \/ NextElite \/ NextTest

Spec == Init /\ [][Next]_vars

\* one run of any of the scripts, from any initial store
OneRun == RunJobAlert \/ RunElite \/ RunTest

SpecOneRun == Init /\ [][OneRun]_vars

-----------------------------------------------------------------------------
(* One run in a world where one thing is wrong *)

\* the webhook variable unset, the disk refusing the write, or the persisted
\* file not what the script wrote
FaultEnvs ==
    { [ NormalEnv EXCEPT !.webhook = "unset" ] }
    \cup { [ NormalEnv EXCEPT !.disk = d ] : d \in { "denied", "full" } }
    \cup { [ NormalEnv EXCEPT !.file = k ] :
               k \in { "invalid_json", "missing_entries", "ill_typed_entries",
                       "no_timestamp", "unreadable" } }

\* a script is started in such a world.  What a file that is not the
\* script's document holds is of no account (it is taken as empty), and an
\* entry without timestamp is a fault only of elite_companies' cache, the
\* entries of the other scripts being bare ids.
InitFaults ==
    /\ StartJobAlert \/ StartElite \/ StartTest
    /\ env \in FaultEnvs
    /\ (env.file = "no_timestamp") => (prog = "elite" /\ cacheFile # << >>)
    /\ (env.file \notin { "ok", "no_timestamp" }) => (seenFile = {} /\ cacheFile = << >>)

SpecFaults == InitFaults /\ [][OneRun]_vars

-----------------------------------------------------------------------------
(* One run with provider calls that return late or never *)

\* every way the calls of the run's queries can behave
CallEnvs == { [ NormalEnv EXCEPT !.calls = f ] : f \in [ Queries -> { "in_time", "late", "never" } ] }

InitStall ==
    /\ StartJobAlert \/ StartElite \/ StartTest
    /\ env \in CallEnvs

NextStall == OneRun \/ T_Timeout \/ T_Joined

SpecStall == InitStall /\ [][NextStall]_vars

-----------------------------------------------------------------------------
(* One run of test_job_alert whose description fetches can be slow *)

\* process_jobs_batch: the 60 s of "for future in as_completed(future_to_job,
\* timeout=60)" are over while a call of stage2_filter_single is still in
\* flight: as_completed raises TimeoutError in the "for" statement, outside
\* the try of the loop body; the "with" block waits for the calls in flight
\* and the exception leaves process_jobs_batch, whose locals (final_jobs,
\* filter_counts) are gone; the "except Exception" of main's loop body
\* prints it and main goes on with the next search term
T_Stage2Timeout ==
    /\ prog = "test" /\ pc = "stage2"
    /\ \E i \in DOMAIN fut : fut[i] = Pending
    /\ pc' = "fetch"
    /\ jobs' = << >> /\ fut' = << >> /\ taken' = {}
    /\ filtered_jobs' = << >> /\ filter_counts' = << >> /\ stage1_jobs' = << >>
    /\ hist' = [ hist EXCEPT !.q = "" ]
    /\ UNCHANGED << envVars, run, now, storeVars, pending, th, all_new_jobs,
                    total_filter_counts, sinkVars, classifyVars >>

NextSlow == RunTest \/ T_Stage2Timeout

SpecSlow == InitTest /\ [][NextSlow]_vars

-----------------------------------------------------------------------------
(* One run with a webhook that answers, fails, or never answers *)

SinkEnvs == { NormalEnv, [ NormalEnv EXCEPT !.webhook = "silent" ] }

InitSilent ==
    /\ StartJobAlert \/ StartElite \/ StartTest
    /\ env \in SinkEnvs

SpecSilent == InitSilent /\ [][OneRun]_vars

-----------------------------------------------------------------------------
(* The seen-jobs store alone: load, record, save, over several runs *)

StoreIds == Urls \cup { OldUrl }

\* first_seen of the entries the file holds before the first run, which
\* loads at now = 0: a second beyond the expiry, at it, a second short of
\* it, and an hour ago
StoreSeen == { 0 - TTL - 1, 0 - TTL, 0 - TTL + 1, 0 - 3600 }

\* seconds between two runs of the store: those of Gaps, and the TTL to the second
StoreGaps == Gaps \cup { TTL }

\* the file before the first run, each id with the time it was first recorded
StoreFiles == UNION { [ D -> StoreSeen ] : D \in SUBSET { OldUrl, "linkedin.com/1" } }

RECURSIVE Perms(_)
\* the orders in which the elements of S can come
Perms(S) ==
    IF S = {} THEN { << >> }
    ELSE UNION { { << x >> \o q : q \in Perms(S \ { x }) } : x \in S }

\* list(S): the elements of S in the order in which the sets of this process
\* iterate (the hash seed is drawn when the process starts)
InOrder(S, order) == SelectSeq(order, LAMBDA u : u \in S)

\* list(S)[-n:], as a set
LastInOrder(S, order, n) ==
    LET l == InOrder(S, order)
    IN  { l[i] : i \in (Len(l) - Min(n, Len(l)) + 1)..Len(l) }

\* born:     per id of the store the time it was first recorded (the scripts
\*           other than elite_companies keep the ids without it)
\* before:   what was in memory, with these times, at the last save
\* recorded: the ids recorded since the load
\* saved:    the run has saved
\* order:    the order in which list(SEEN_JOBS) came at the last save
\* resaved:  the last save was not the first of the run
\* again:    the last save followed a save with nothing recorded in between
\* once:     what the file held before that last save
NoStoreHist ==
    [ born |-> << >>, before |-> << >>, recorded |-> {}, saved |-> FALSE,
      order |-> << >>, resaved |-> FALSE, again |-> FALSE,
      once |-> IF prog = "elite" THEN << >> ELSE {} ]

InitStore ==
    /\ prog \in { "job_alert", "elite", "test" }
    /\ pc = "load"
    /\ run = 1
    /\ now = 0
    /\ provider = << >>
    /\ sink = "unknown"
    /\ env = NormalEnv
    /\ \E f \in StoreFiles :
         /\ hist = [ NoStoreHist EXCEPT !.born = f ]
         /\ seenFile = IF prog = "elite" THEN {} ELSE DOMAIN f
         /\ cacheFile = IF prog = "elite" THEN f ELSE << >>
    /\ SEEN_JOBS = {}
    /\ cache = << >>
    /\ pending = {}
    /\ jobs = << >>
    /\ fut = << >>
    /\ taken = {}
    /\ filtered_jobs = << >>
    /\ filter_counts = << >>
    /\ stage1_jobs = << >>
    /\ all_new_jobs = << >>
    /\ total_filter_counts = << >>
    /\ th = << >>
    /\ messages = << >>
    /\ mi = 1
    /\ attempt = 0
    /\ sinkLog = << >>
    /\ cur = << >>
    /\ outcome = Pending

\* the ids the store in memory holds
Held == IF prog = "elite" THEN DOMAIN cache ELSE SEEN_JOBS

\* the ids the file holds
Persisted == IF prog = "elite" THEN DOMAIN cacheFile ELSE seenFile

\* the store in memory, each id with the time it was first recorded
InMemory == [ u \in Held |-> IF prog = "elite" THEN cache[u] ELSE hist.born[u] ]

\* what the store's operations leave alone
restVars ==
    << prog, provider, sink, pending, batchVars, all_new_jobs, total_filter_counts,
       sinkVars, classifyVars >>

\* the script starts: load_seen_jobs, or load_cache and the sweep of main
StoreLoad ==
    /\ pc = "load"
    /\ IF prog = "elite"
       THEN /\ cache' = Unexpired(load_cache(cacheFile, env.file).jobs, now)
            /\ SEEN_JOBS' = SEEN_JOBS
       ELSE /\ SEEN_JOBS' = load_seen_jobs(seenFile, env.file).ids
            /\ cache' = cache
    /\ hist' = [ hist EXCEPT !.recorded = {}, !.saved = FALSE, !.resaved = FALSE,
                             !.again = FALSE ]
    /\ pc' = "loaded"
    /\ UNCHANGED << restVars, env, run, now, seenFile, cacheFile >>

\* a posting whose id the store does not hold is accepted: SEEN_JOBS.add(u),
\* or cache["jobs"][u] = {"first_seen": now, ...}; elite_companies goes on
\* recording after a save (it saves after every batch of companies)
StoreRecord(u) ==
    /\ pc = "loaded" \/ (pc = "saved" /\ prog = "elite")
    /\ u \notin Held
    /\ IF prog = "elite"
       THEN /\ cache' = Put(cache, u, now)
            /\ SEEN_JOBS' = SEEN_JOBS
       ELSE /\ SEEN_JOBS' = SEEN_JOBS \cup { u }
            /\ cache' = cache
    /\ hist' = [ hist EXCEPT !.born = Put(@, u, now), !.recorded = @ \cup { u },
                             !.again = FALSE ]
    /\ pc' = "loaded"
    /\ UNCHANGED << restVars, env, run, now, seenFile, cacheFile >>

\* the persisted entries
File == IF prog = "elite" THEN cacheFile ELSE seenFile

\* save_seen_jobs, or save_cache, called when something may have been
\* recorded since the last save (pc = "loaded") or once more right after a
\* save (pc = "saved").  list(SEEN_JOBS) comes in the iteration order of the
\* process's set, which is any order at the first save and, the set not
\* having changed, the same order at a save that follows a save.
StoreSave ==
    /\ pc \in { "loaded", "saved" }
    /\ \E order \in (IF prog = "elite" \/ pc = "saved" THEN { hist.order }
                      ELSE Perms(SEEN_JOBS)) :
         /\ IF prog = "elite"
            THEN save_cache /\ seenFile' = seenFile
            ELSE /\ save_seen_jobs
                 /\ seenFile' = LastInOrder(SEEN_JOBS, order, MAX_JOBS_TO_KEEP)
                 /\ cacheFile' = cacheFile
         /\ hist' = [ hist EXCEPT !.before = InMemory, !.saved = TRUE,
                                  !.order = order,
                                  !.resaved = IF pc = "saved" THEN @ ELSE hist.saved,
                                  !.again = (pc = "saved"),
                                  !.once = IF pc = "saved" THEN File ELSE @ ]
    /\ pc' = "saved"
    /\ UNCHANGED << restVars, run, now, SEEN_JOBS, cache >>

\* the process ends, and with it its memory; the script is started again later
StoreRestart ==
    /\ pc = "saved"
    /\ run < MaxRuns
    /\ run' = run + 1
    /\ \E d \in StoreGaps : now' = now + d
    /\ SEEN_JOBS' = {}
    /\ cache' = << >>
    /\ hist' = [ hist EXCEPT !.born = [ u \in Persisted |-> hist.born[u] ],
                             !.recorded = {}, !.saved = FALSE, !.order = << >>,
                             !.resaved = FALSE, !.again = FALSE ]
    /\ pc' = "load"
    /\ UNCHANGED << restVars, env, seenFile, cacheFile >>

NextStore == StoreLoad \/ (\E u \in StoreIds : StoreRecord(u)) \/ StoreSave \/ StoreRestart

SpecStore == InitStore /\ [][NextStore]_vars

-----------------------------------------------------------------------------
(* The store and its file as documents: what json.load and json.dump make of
   them.  Here seenFile is the array "seen_jobs" of seen_jobs.json and
   cacheFile the members of the object "jobs" of elite_jobs_cache.json, in
   the order of the file; a file edited by hand can list an id twice. *)

\* most entries of a file that was not written by the script
MaxDocLen == 3

DocIds == { "linkedin.com/1", "linkedin.com/2" }

\* a member of "jobs": the key and "first_seen" of its value
Member(url, t) == [ url |-> url, first_seen |-> t ]

SeenDocs == SeqsUpTo(DocIds, MaxDocLen)

CacheDocs == SeqsUpTo({ Member(u, t) : u \in DocIds, t \in { 0 - 7200, 0 - 3600 } }, MaxDocLen)

\* the keys of the members
KeysOf(doc) == { doc[i].url : i \in 1..Len(doc) }

\* set(jobs_data.get("seen_jobs", []))
SetOfArray(doc) == Range(doc)

\* json.load of an object: a dict, the last member of a key giving its value
DictOfObject(doc) ==
    [ u \in KeysOf(doc) |->
        LET last == CHOOSE i \in 1..Len(doc) :
                        doc[i].url = u /\ \A j \in 1..Len(doc) : doc[j].url = u => j <= i
        IN  doc[last].first_seen ]

\* list(SEEN_JOBS)[-n:], the array json.dump writes
ArrayOfSet(S, order, n) ==
    LET l == InOrder(S, order)
    IN  SubSeq(l, Len(l) - Min(n, Len(l)) + 1, Len(l))

\* json.dump of the dict: one member a key
ObjectOfDict(d, order) ==
    LET l == InOrder(DOMAIN d, order)
    IN  [ i \in 1..Len(l) |-> Member(l[i], d[l[i]]) ]

\* twice: the ids the loaded file listed more than once
\* again: an id the store already held was recorded
NoDocHist == [ saved |-> FALSE, twice |-> {}, again |-> FALSE ]

InitDoc ==
    /\ prog \in { "job_alert", "elite", "test" }
    /\ pc = "load"
    /\ run = 1
    /\ now = 0
    /\ provider = << >>
    /\ sink = "unknown"
    /\ env = NormalEnv
    /\ IF prog = "elite"
       THEN seenFile = << >> /\ cacheFile \in CacheDocs
       ELSE seenFile \in SeenDocs /\ cacheFile = << >>
    /\ SEEN_JOBS = {}
    /\ cache = << >>
    /\ pending = {}
    /\ jobs = << >>
    /\ fut = << >>
    /\ taken = {}
    /\ filtered_jobs = << >>
    /\ filter_counts = << >>
    /\ stage1_jobs = << >>
    /\ all_new_jobs = << >>
    /\ total_filter_counts = << >>
    /\ th = << >>
    /\ messages = << >>
    /\ mi = 1
    /\ attempt = 0
    /\ sinkLog = << >>
    /\ cur = << >>
    /\ outcome = Pending
    /\ hist = NoDocHist

\* the ids the file lists, each as often as it is listed
Listed == IF prog = "elite" THEN [ i \in 1..Len(cacheFile) |-> cacheFile[i].url ] ELSE seenFile

\* load_seen_jobs, or load_cache and the sweep of main
DocLoad ==
    /\ pc = "load"
    /\ IF prog = "elite"
       THEN /\ cache' = Unexpired(DictOfObject(cacheFile), now)
            /\ SEEN_JOBS' = SEEN_JOBS
       ELSE /\ SEEN_JOBS' = SetOfArray(seenFile)
            /\ cache' = cache
    /\ hist' = [ hist EXCEPT !.twice = { u \in DocIds :
                     Cardinality({ i \in 1..Len(Listed) : Listed[i] = u }) > 1 } ]
    /\ pc' = "loaded"
    /\ UNCHANGED << restVars, env, run, now, seenFile, cacheFile >>

\* SEEN_JOBS.add(url) (job_alert does it twice for an accepted posting), or
\* cache["jobs"][url] = {...}, which two threads of elite_companies can do
\* for the same url
DocRecord(u) ==
    /\ pc = "loaded"
    /\ IF prog = "elite"
       THEN /\ cache' = Put(cache, u, now)
            /\ SEEN_JOBS' = SEEN_JOBS
       ELSE /\ SEEN_JOBS' = SEEN_JOBS \cup { u }
            /\ cache' = cache
    /\ hist' = [ hist EXCEPT !.again = @ \/ u \in Held ]
    /\ UNCHANGED << restVars, env, pc, run, now, seenFile, cacheFile >>

\* DocWritten with the entries added to those of the file
DocWritten_appended(order) ==
    IF prog = "elite" THEN cacheFile \o ObjectOfDict(cache, order)
    ELSE seenFile \o ArrayOfSet(SEEN_JOBS, order, MAX_JOBS_TO_KEEP)

\* what save_cache, or save_seen_jobs, writes: open(file, "w") and json.dump
DocWritten(order) ==
    IF prog = "elite" THEN ObjectOfDict(cache, order)
    ELSE ArrayOfSet(SEEN_JOBS, order, MAX_JOBS_TO_KEEP)

\* save_seen_jobs, or save_cache, the set or dict coming in any order
DocSave ==
    /\ pc = "loaded"
    /\ \E order \in Perms(Held) :
         IF prog = "elite"
         THEN cacheFile' = DocWritten(order) /\ seenFile' = seenFile
         ELSE seenFile' = DocWritten(order) /\ cacheFile' = cacheFile
    /\ hist' = [ hist EXCEPT !.saved = TRUE ]
    /\ pc' = "saved"
    /\ UNCHANGED << restVars, env, run, now, SEEN_JOBS, cache >>

\* the process ends, and with it its memory; the script is started again
DocRestart ==
    /\ pc = "saved"
    /\ run < MaxRuns
    /\ run' = run + 1
    /\ SEEN_JOBS' = {}
    /\ cache' = << >>
    /\ pc' = "load"
    /\ UNCHANGED << restVars, env, now, seenFile, cacheFile, hist >>

NextDoc == DocLoad \/ (\E u \in DocIds : DocRecord(u)) \/ DocSave \/ DocRestart

SpecDoc == InitDoc /\ [][NextDoc]_vars

-----------------------------------------------------------------------------
(* Classification of one posting, over a wider range of postings *)

FilterTitles == SUBSET { "security", "senior" }

FilterDescriptions ==
    { None } \cup { Some(d) : d \in SUBSET { "dice", "easy apply", "security clearance" } }

FilterVias == { None, Some({ "linkedin" }), Some({ "dice" }) }

FilterCompanies == { { "acme" }, { "initech" }, { "lensa" } }

FilterPages ==
    { None } \cup
    { Some(d) : d \in SUBSET { "security clearance", "requires 5+ years", "no sponsorship" } }
    \cup { Some({ text }) : text \in ExperienceTexts }

FilterUrls == { "linkedin.com/1", "indeed.com/9" }

\* the company elite_companies searched for when it got the posting
SearchedCompany == "Acme"

InitFilter ==
    /\ prog \in { "job_alert", "elite", "test" }
    /\ pc = "classify"
    /\ run = 1
    /\ now = 0
    /\ provider = << >>
    /\ sink = "up"
    /\ env = NormalEnv
    /\ seenFile = {}
    /\ cacheFile = << >>
    /\ pending = {}
    /\ jobs = << >>
    /\ fut = << >>
    /\ taken = {}
    /\ filtered_jobs = << >>
    /\ filter_counts = << >>
    /\ stage1_jobs = << >>
    /\ all_new_jobs = << >>
    /\ total_filter_counts = << >>
    /\ th = << >>
    /\ messages = << >>
    /\ mi = 1
    /\ attempt = 0
    /\ sinkLog = << >>
    /\ hist = NoHist
    /\ outcome = Pending
    /\ \E url \in FilterUrls, title \in FilterTitles, company \in FilterCompanies,
          via \in FilterVias, description \in FilterDescriptions :
         \/ /\ prog = "job_alert"
            /\ \E apply_text \in { {}, { "easy apply" } } :
                 cur = Job(url, title, company, via, description, apply_text, None)
         \/ /\ prog = "elite"
            /\ cur = Job(url, title, company, via, description, {}, None)
         \/ /\ prog = "test"
            /\ \E page \in FilterPages :
                 cur = Job(url, title, company, via, description, {}, page)
    /\ \/ /\ prog # "elite"
          /\ SEEN_JOBS \in { {}, { cur.job_url } }
          /\ cache = << >>
       \/ /\ prog = "elite"
          /\ SEEN_JOBS = {}
          /\ cache \in { << >>, Put(<< >>, cur.job_url, 0) }

\* ClassifyJobAlert with filter_job itself recording the id of a posting
\* that passed
ClassifyJobAlert_recording ==
    /\ prog = "job_alert" /\ pc = "classify"
    /\ outcome' = ja_filter_job(cur, SEEN_JOBS)
    /\ SEEN_JOBS' = IF outcome'.ok THEN SEEN_JOBS \cup { cur.job_url } ELSE SEEN_JOBS
    /\ pc' = "classified"
    /\ UNCHANGED << envVars, run, now, seenFile, cacheFile, cache, pending, batchVars,
                    all_new_jobs, total_filter_counts, sinkVars, cur, hist >>

\* job_alert: filter_job(job)
ClassifyJobAlert ==
    /\ prog = "job_alert" /\ pc = "classify"
    /\ outcome' = ja_filter_job(cur, SEEN_JOBS)
    /\ pc' = "classified"
    /\ UNCHANGED << envVars, run, now, storeVars, pending, batchVars, all_new_jobs,
                    total_filter_counts, sinkVars, cur, hist >>

\* elite_companies: filter_job(job, company, cache)
ClassifyElite ==
    /\ prog = "elite" /\ pc = "classify"
    /\ outcome' = ec_filter_job(cur, SearchedCompany, cache)
    /\ pc' = "classified"
    /\ UNCHANGED << envVars, run, now, storeVars, pending, batchVars, all_new_jobs,
                    total_filter_counts, sinkVars, cur, hist >>

\* test_job_alert: stage1_filter(job)
ClassifyStage1 ==
    /\ prog = "test" /\ pc = "classify"
    /\ outcome' = stage1_filter(cur, SEEN_JOBS)
    /\ pc' = IF outcome'.ok THEN "stage2" ELSE "classified"
    /\ UNCHANGED << envVars, run, now, storeVars, pending, batchVars, all_new_jobs,
                    total_filter_counts, sinkVars, cur, hist >>

\* test_job_alert: stage2_filter_single(job) on a posting that passed stage 1
ClassifyStage2 ==
    /\ prog = "test" /\ pc = "stage2" /\ cur # << >>
    /\ outcome' = stage2_filter_single(cur)
    /\ pc' = "classified"
    /\ UNCHANGED << envVars, run, now, storeVars, pending, batchVars, all_new_jobs,
                    total_filter_counts, sinkVars, cur, hist >>

NextFilter == ClassifyJobAlert \/ ClassifyElite \/ ClassifyStage1 \/ ClassifyStage2

SpecFilter == InitFilter /\ [][NextFilter]_vars

-----------------------------------------------------------------------------
(* Classification of one posting, and of the same posting once more *)

\* the reasons stage1_filter rejects with
Stage1Rejects == { "seen", "source", "title_keywords", "title_reject", "easy_apply" }

\* filter_job, or stage1_filter, is called again for the posting it has just
\* classified, nothing else having run in between; hist keeps the outcome of
\* the first call
ClassifyAgain ==
    /\ hist = NoHist
    /\ \/ prog \in { "job_alert", "elite" } /\ pc = "classified"
       \/ prog = "test" /\ pc = "stage2"
       \/ prog = "test" /\ pc = "classified" /\ outcome.reason \in Stage1Rejects
    /\ outcome' = CASE prog = "job_alert" -> ja_filter_job(cur, SEEN_JOBS)
                    [] prog = "elite" -> ec_filter_job(cur, SearchedCompany, cache)
                    [] prog = "test" -> stage1_filter(cur, SEEN_JOBS)
    /\ hist' = [ first |-> outcome ]
    /\ UNCHANGED << envVars, pc, run, now, storeVars, pending, batchVars, all_new_jobs,
                    total_filter_counts, sinkVars, cur >>

NextTwice ==
    ClassifyJobAlert \/ ClassifyElite \/ ClassifyStage1 \/ ClassifyAgain

SpecTwice == InitFilter /\ [][NextTwice]_vars

-----------------------------------------------------------------------------
(* The dispatcher alone, over longer message lists and a flaky webhook *)

\* most messages handed to elite_companies.post_to_slack
MaxBatchMsgs == 45

\* most postings job_alert.main sends one by one after the header
MaxSingleMsgs == 3

Numbered(n) == [ i \in 1..n |-> [ kind |-> "job", url |-> i ] ]

InitDispatch ==
    /\ prog \in { "job_alert", "elite", "test" }
    /\ pc = "post"
    /\ run = 1
    /\ now = 0
    /\ provider = << >>
    /\ sink \in { "up", "down", "flaky" }
    /\ env = NormalEnv
    /\ seenFile = {}
    /\ cacheFile = << >>
    /\ SEEN_JOBS = {}
    /\ cache = << >>
    /\ pending = {}
    /\ jobs = << >>
    /\ fut = << >>
    /\ taken = {}
    /\ filtered_jobs = << >>
    /\ filter_counts = << >>
    /\ stage1_jobs = << >>
    /\ all_new_jobs = << >>
    /\ total_filter_counts = << >>
    /\ th = << >>
    /\ mi = 1
    /\ attempt = 0
    /\ sinkLog = << >>
    /\ cur = << >>
    /\ outcome = Pending
    /\ hist = NoHist
    /\ \/ /\ prog = "job_alert"
          /\ \/ messages = << [ kind |-> "none" ] >>
             \/ \E n \in 1..MaxSingleMsgs :
                  messages = << [ kind |-> "header" ] >> \o Numbered(n)
       \/ /\ prog = "elite"
          /\ \E n \in 0..MaxBatchMsgs : messages = Numbered(n)
       \/ /\ prog = "test"
          /\ messages \in { << [ kind |-> "none" ] >>, << [ kind |-> "digest" ] >> }

NextDispatch == JA_Post \/ EC_Post \/ T_Post

SpecDispatch == InitDispatch /\ [][NextDispatch]_vars

-----------------------------------------------------------------------------
(* The fetch pool alone: ThreadPoolExecutor(max_workers=W), one submit per query *)

\* job_alert.main: ThreadPoolExecutor(max_workers=5)
JA_FETCH_WORKERS == 5

\* elite_companies.process_company_batch: ThreadPoolExecutor(max_workers=5)
EC_FETCH_WORKERS == 5

\* test_job_alert.main: ThreadPoolExecutor(max_workers=3)
T_FETCH_WORKERS == 3

\* most queries submitted to one pool (8 search terms in job_alert, 39 in
\* test_job_alert, 10 companies a batch in elite_companies)
MaxPoolQueries == 8

\* company batches elite_companies.main goes through, one pool each
MaxBatches == 2

\* max_workers of the script's fetch pool
max_workers ==
    CASE prog = "job_alert" -> JA_FETCH_WORKERS
      [] prog = "elite" -> EC_FETCH_WORKERS
      [] prog = "test" -> T_FETCH_WORKERS

\* executor.submit for each of n queries: the work items of batch b, queued
Submitted(n, b) == [ i \in 1..n |-> [ batch |-> b, st |-> "queued" ] ]

\* the batch whose pool is open
CurBatch == IF th = << >> THEN 1 ELSE th[Len(th)].batch

\* the work items of pool b in state st
ItemsIn(st, b) == { i \in 1..Len(th) : th[i].st = st /\ th[i].batch = b }

\* the provider calls in flight
InFlight == { i \in 1..Len(th) : th[i].st = "running" }

InitPool ==
    /\ prog \in { "job_alert", "elite", "test" }
    /\ pc = "pool"
    /\ run = 1
    /\ now = 0
    /\ provider = << >>
    /\ sink = "unknown"
    /\ env = NormalEnv
    /\ seenFile = {}
    /\ cacheFile = << >>
    /\ SEEN_JOBS = {}
    /\ cache = << >>
    /\ \E n \in (IF prog = "elite" THEN 1 ELSE 0)..MaxPoolQueries :
         /\ th = Submitted(n, 1)
         /\ pending = 1..n
    /\ jobs = << >>
    /\ fut = << >>
    /\ taken = {}
    /\ filtered_jobs = << >>
    /\ filter_counts = << >>
    /\ stage1_jobs = << >>
    /\ all_new_jobs = << >>
    /\ total_filter_counts = << >>
    /\ messages = << >>
    /\ mi = 1
    /\ attempt = 0
    /\ sinkLog = << >>
    /\ cur = << >>
    /\ outcome = Pending
    /\ hist = NoHist

\* what the pool's steps leave alone
poolRest ==
    << envVars, run, now, storeVars, jobs, fut, taken, filtered_jobs, filter_counts,
       stage1_jobs, all_new_jobs, total_filter_counts, sinkVars, classifyVars, hist >>

\* PoolStart with a thread for every work item
PoolStart_threadPerQuery ==
    /\ pc = "pool"
    /\ ItemsIn("queued", CurBatch) # {}
    /\ LET i == CHOOSE k \in ItemsIn("queued", CurBatch) :
                   \A j \in ItemsIn("queued", CurBatch) : k <= j
       IN  th' = [ th EXCEPT ![i].st = "running" ]
    /\ UNCHANGED << pc, pending, poolRest >>

\* a worker thread of the pool takes the next work item of the queue and
\* calls scrape_jobs (process_single_company in elite_companies); the pool
\* has at most max_workers threads, each running one item at a time
PoolStart ==
    /\ pc = "pool"
    /\ ItemsIn("queued", CurBatch) # {}
    /\ Cardinality(ItemsIn("running", CurBatch)) < max_workers
    /\ LET i == CHOOSE k \in ItemsIn("queued", CurBatch) :
                   \A j \in ItemsIn("queued", CurBatch) : k <= j
       IN  th' = [ th EXCEPT ![i].st = "running" ]
    /\ UNCHANGED << pc, pending, poolRest >>

\* the call returns or raises: the future is done, the thread free again
PoolReturn(i) ==
    /\ pc = "pool"
    /\ i \in InFlight
    /\ th' = [ th EXCEPT ![i].st = "done" ]
    /\ UNCHANGED << pc, pending, poolRest >>

\* one turn of "for future in as_completed(...)"
PoolYield(i) ==
    /\ pc = "pool"
    /\ i \in pending /\ th[i].st = "done"
    /\ pending' = pending \ { i }
    /\ UNCHANGED << pc, th, poolRest >>

\* elite_companies: the loop of process_company_batch is over, the "with"
\* block is left (shutdown(wait=True) joins the pool's threads, and the pool
\* with its work items is gone) and main calls process_company_batch for
\* the next batch of companies, with a pool of its own
PoolNextBatch ==
    /\ prog = "elite" /\ pc = "pool"
    /\ pending = {}
    /\ InFlight = {}
    /\ CurBatch < MaxBatches
    /\ \E n \in 1..MaxPoolQueries :
         /\ th' = Submitted(n, CurBatch + 1)
         /\ pending' = 1..n
    /\ UNCHANGED << pc, poolRest >>

\* the loop is over and the "with" block is left for the last time
PoolExit ==
    /\ pc = "pool"
    /\ pending = {}
    /\ InFlight = {}
    /\ prog = "elite" => CurBatch = MaxBatches
    /\ pc' = "fetched"
    /\ UNCHANGED << th, pending, poolRest >>

NextPool ==
    \/ PoolStart
    \/ \E i \in 1..MaxPoolQueries : PoolReturn(i)
    \/ \E i \in 1..MaxPoolQueries : PoolYield(i)
    \/ PoolNextBatch
    \/ PoolExit

SpecPool == InitPool /\ [][NextPool]_vars

-----------------------------------------------------------------------------
(* The messages of elite_companies alone: main from "Prepare Slack messages" on *)

\* most postings accepted in the run
MaxAccepted == 4

\* the lists all_jobs can be at the end of the batches: postings that passed
\* the filter, each tagged with the company searched for, none twice for
\* the same company; the postings of one company are in the order they were
\* accepted in (company_jobs.append), those of different companies in the
\* order their searches completed in
AcceptedLists ==
    LET entries == { Tagged(GoodJob(u), c) :
                       u \in { "linkedin.com/1", "linkedin.com/2", "linkedin.com/3" },
                       c \in Queries }
    IN  UNION { { q \in [ 1..n -> entries ] :
                    \A i, j \in 1..n : q[i] = q[j] => i = j } : n \in 0..MaxAccepted }

InitGroup ==
    /\ prog = "elite"
    /\ pc = "build"
    /\ run = 1
    /\ now = 0
    /\ provider = << >>
    /\ sink = "unknown"
    /\ env = NormalEnv
    /\ seenFile = {}
    /\ cacheFile = << >>
    /\ SEEN_JOBS = {}
    /\ cache = << >>
    /\ pending = {}
    /\ jobs = << >>
    /\ fut = << >>
    /\ taken = {}
    /\ filtered_jobs = << >>
    /\ filter_counts = << >>
    /\ stage1_jobs = << >>
    /\ all_new_jobs \in AcceptedLists
    /\ total_filter_counts =
           [ r \in EC_Reasons |-> IF r = "passed" THEN Len(all_new_jobs) ELSE 0 ]
    /\ th = << >>
    /\ messages = << >>
    /\ mi = 1
    /\ attempt = 0
    /\ sinkLog = << >>
    /\ cur = << >>
    /\ outcome = Pending
    /\ hist = NoHist

NextGroup == EC_BuildMessages \/ EC_Post \/ EC_Done

SpecGroup == InitGroup /\ [][NextGroup]_vars

-----------------------------------------------------------------------------
(* Properties *)

\* C1: a second run against the same provider results accepts no posting
\* that an earlier run accepted (it classifies each of them "seen").
\* Checked on job_alert (SpecJobAlert).
C1_IdempotentDelivery ==
    (run >= 2 /\ pc # "start") =>
        \A i \in 1..Len(all_new_jobs) : all_new_jobs[i].job_url \notin hist.prev

\* C2: within one run no two accepted postings have the same id, also when
\* their filter evaluations run concurrently.  Checked on elite_companies
\* (SpecElite).
C2_AcceptedOncePerId ==
    \A i, j \in 1..Len(all_new_jobs) :
        i # j => all_new_jobs[i].job_url # all_new_jobs[j].job_url

\* the predicate of each stage of test_job_alert, named by the reason it reports
StageHolds(reason, job, seen) ==
    CASE reason = "seen" -> job.job_url \in seen
      [] reason = "source" ->
             Search(SOURCE_REJECT, Text(job.via)) \/ Search(SOURCE_REJECT, job.company)
      [] reason = "title_keywords" -> ~ Search(T_TITLE_KEYWORDS, job.title)
      [] reason = "title_reject" -> Search(T_REJECT_TITLE, job.title)
      [] reason = "easy_apply" ->
             Search(EASY_APPLY_REJECT, job.title \cup Text(job.description))
      [] reason = "clearance_required" ->
             IsLinkedIn(job.job_url) /\ Search(CLEARANCE_KEYWORDS, Text(job.page))
      [] reason = "experience_required" ->
             IsLinkedIn(job.job_url) /\ Search(EXPERIENCE_REJECT, Text(job.page))
      [] reason = "sponsorship_required" ->
             IsLinkedIn(job.job_url) /\ Search(SPONSORSHIP_REJECT, Text(job.page))

RECURSIVE FirstReason(_, _, _)
\* the reason of the first stage of the order that holds, the accepting one if none
FirstReason(order, job, seen) ==
    IF order = << >> THEN "stage2_passed"
    ELSE IF StageHolds(Head(order), job, seen) THEN Head(order)
    ELSE FirstReason(Tail(order), job, seen)

\* Seen, SourceRejected, TitleMissingKeyword, TitleRejected, DescriptionRejected,
\* ExperienceExceeded, EasyApply, SponsorshipRestricted
StatedOrder ==
    << "seen", "source", "title_keywords", "title_reject", "clearance_required",
       "experience_required", "easy_apply", "sponsorship_required" >>

\* the same stages with EasyApply, the last check of stage 1, before the
\* three checks of stage 2
TwoStageOrder ==
    << "seen", "source", "title_keywords", "title_reject", "easy_apply",
       "clearance_required", "experience_required", "sponsorship_required" >>

InStore(job) == IF prog = "elite" THEN is_job_seen(job.job_url, cache)
                ELSE job.job_url \in SEEN_JOBS

\* C4: a posting whose id is in the Dedup Store is classified Seen ("seen",
\* or "cached" in elite_companies) whatever its title, source and description.
C4_SeenWins ==
    (pc = "classified" /\ InStore(cur)) =>
        (~ outcome.raised /\ outcome.reason \in { "seen", "cached" })

\* C5: a posting that is not seen, whose source is not denied (and, in
\* elite_companies, that is of the searched company and has a description)
\* and whose title has no required keyword is classified TitleMissingKeyword,
\* also when its title matches the deny-list.
C5_AllowListFirst ==
    ( /\ pc = "classified"
      /\ ~ InStore(cur)
      /\ ~ Search(SOURCE_REJECT \cup { "dice", "lensa" },
                  Text(cur.via) \cup Text(cur.description) \cup cur.company)
      /\ \/ prog = "job_alert" /\ ~ Search(TITLE_KEYWORDS, cur.title)
         \/ /\ prog = "elite"
            /\ ~ Search(REQUIRED_TITLE_PATTERN, cur.title)
            /\ Lower(SearchedCompany) \in cur.company
            /\ cur.description # None )
    => outcome.reason \in { "title_keywords", "title_missing_keywords" }

\* C6: at the end of a run the counters add up to the number of postings
\* classified, and the accepted postings are as many as the accepting counter.
C6_OneCountPerPosting ==
    (prog = "test" /\ pc = "done") =>
        /\ SumOver(total_filter_counts, T_Reasons)
               = SumOver(hist.classified, Queries)
        /\ Len(all_new_jobs) = total_filter_counts["stage2_passed"]

\* C7: the ids a run adds to the Dedup Store are ids of postings the run accepted.
C7_RecordedOnlyIfAccepted ==
    (prog = "test" /\ pc = "done") =>
        (SEEN_JOBS \ hist.loaded) \subseteq UrlsOf(all_new_jobs)

\* the ids the run's messages carry
NotifiedUrls ==
    { messages[i].url : i \in { k \in 1..Len(messages) : messages[k].kind = "job" } }
    \cup UNION { Range(messages[i].urls) :
                   i \in { k \in 1..Len(messages) : messages[k].kind = "digest" } }

\* the sink calls made so far, in order
Posts == SelectSeq(sinkLog, LAMBDA e : e.ev = "post")

\* the sink calls that carried message m
CallsWith(m) == { i \in 1..Len(Posts) : Posts[i].first <= m /\ m < Posts[i].first + Posts[i].n }

\* C8: whatever queries' provider calls fail, the run never stops before its
\* end; at its end the store is persisted, every message (there is at least
\* one) was handed to the sink, every posting of a query that did not fail was
\* classified, the accepted postings are exactly the notified ones, and a
\* posting that nothing speaks against was accepted.
C8_PartialFailureIsolation ==
    /\ (pc # "done") => ENABLED OneRun
    /\ (pc = "done") =>
         /\ hist.saved
         /\ messages # << >>
         /\ \A m \in 1..Len(messages) : CallsWith(m) # {}
         /\ NotifiedUrls = UrlsOf(all_new_jobs)
         /\ \A q \in Queries :
              (provider[q].ok /\ q \notin hist.raised) =>
                  hist.classified[q] = Len(provider[q].jobs)
         /\ (hist.raised = {}) =>
              \A q \in Queries : \A i \in 1..Len(provider[q].jobs) :
                  LET job == provider[q].jobs[i]
                  IN  (provider[q].ok /\ job = GoodJob(job.job_url)
                       /\ job.job_url \notin hist.loaded)
                      => job.job_url \in UrlsOf(all_new_jobs)

\* a run in which a provider call failed has ended with a posting of the
\* other query accepted and notified
C8_Witness ==
    /\ pc = "done"
    /\ \E q \in Queries : ~ provider[q].ok
    /\ all_new_jobs # << >>
    /\ NotifiedUrls # {}
    /\ hist.saved

\* max_retries of the script's post_to_slack
max_retries ==
    CASE prog = "job_alert" -> JA_MAX_RETRIES
      [] prog = "elite" -> EC_MAX_RETRIES
      [] prog = "test" -> T_MAX_RETRIES

\* the sink failed max_retries times in a row
Exhausted ==
    \E i \in 1..Len(Posts) :
        /\ i + max_retries - 1 <= Len(Posts)
        /\ \A k \in i..(i + max_retries - 1) : ~ Posts[k].ok

\* post_to_slack has returned for every message
Dispatched == pc = "post" /\ mi > Len(messages)

\* C9: a message (or batch) gets at most max_retries sink calls, none after a
\* successful one, so no message is delivered twice; and when the sink never
\* fails max_retries times in a row, every message is delivered exactly once.
C9_RetryAndExactlyOnce ==
    /\ \A i \in 1..Len(Posts) :
         /\ Cardinality({ k \in 1..Len(Posts) : Posts[k].first = Posts[i].first })
                <= max_retries
         /\ Posts[i].ok =>
                \A k \in (i + 1)..Len(Posts) : Posts[k].first # Posts[i].first
    /\ \A m \in 1..Len(messages) :
         Cardinality({ i \in CallsWith(m) : Posts[i].ok }) <= 1
    /\ (Dispatched /\ ~ Exhausted) =>
         \A m \in 1..Len(messages) :
             Cardinality({ i \in CallsWith(m) : Posts[i].ok }) = 1

\* every message is out, one of them after a failed call and a retry
C9_Witness ==
    /\ Dispatched /\ ~ Exhausted
    /\ Len(messages) > 1
    /\ \E i \in 1..(Len(Posts) - 1) :
         ~ Posts[i].ok /\ Posts[i + 1].ok /\ Posts[i + 1].first = Posts[i].first

\* the places of the sink calls in sinkLog
PostAt == { i \in 1..Len(sinkLog) : sinkLog[i].ev = "post" }

\* the batches post_to_slack cuts the messages into: first message and size
Batches ==
    { [ first |-> f, n |-> Min(batch_size, Len(messages) - f + 1) ] :
        f \in { k \in 1..Len(messages) : (k - 1) % batch_size = 0 } }

\* the sizes of the sink calls in order
Sizes == [ i \in 1..Len(Posts) |-> Posts[i].n ]

\* all of 45 messages went to a sink that answers every call
Sent45 == prog = "elite" /\ Dispatched /\ Len(messages) = 45 /\ sink = "up"

\* C10 as stated: the batches are consecutive slices of at most batch_size
\* messages sent in order; 45 messages make 3 sink calls of sizes 20, 20, 5,
\* each preceded by the pacing delay.
C10_PacedBefore ==
    /\ (prog = "elite") =>
         \A i \in 1..Len(Posts) :
             /\ [ first |-> Posts[i].first, n |-> Posts[i].n ] \in Batches
             /\ \A k \in 1..(i - 1) : Posts[k].first <= Posts[i].first
    /\ Sent45 =>
         /\ Sizes = << 20, 20, 5 >>
         /\ \A i \in PostAt : i > 1 /\ sinkLog[i - 1] = Sleep(1)

\* C10 amended: the batches are consecutive slices of at most batch_size
\* messages (all but the last of exactly batch_size) that make up the input,
\* sent in order, a batch's calls ending before the next batch's first; the
\* pacing delay follows the last call of every batch, so it precedes every
\* batch but the first; 45 messages make 3 sink calls of sizes 20, 20, 5.
C10_PacedAfter ==
    /\ (prog = "elite") =>
         /\ \A i \in 1..Len(Posts) :
              /\ [ first |-> Posts[i].first, n |-> Posts[i].n ] \in Batches
              /\ \A k \in 1..(i - 1) : Posts[k].first <= Posts[i].first
              /\ i = 1 => Posts[i].first = 1
              /\ i > 1 => Posts[i].first \in { Posts[i - 1].first,
                                               Posts[i - 1].first + batch_size }
         /\ \A i \in PostAt :
              LET before == { k \in PostAt : k < i }
                  firstCall == \A k \in before : sinkLog[k].first # sinkLog[i].first
              IN  /\ (firstCall /\ before # {}) => sinkLog[i - 1] = Sleep(1)
                  /\ before = {} => i = 1
         /\ Dispatched =>
              /\ { [ first |-> Posts[i].first, n |-> Posts[i].n ] : i \in 1..Len(Posts) }
                     = Batches
              /\ sinkLog # << >> => sinkLog[Len(sinkLog)] = Sleep(1)
    /\ Sent45 =>
         /\ Sizes = << 20, 20, 5 >>
         /\ sinkLog = << Post(1, 20, TRUE), Sleep(1), Post(21, 20, TRUE), Sleep(1),
                         Post(41, 5, TRUE), Sleep(1) >>

\* 45 messages went out in three calls
C10_Witness ==
    /\ Sent45
    /\ Len(Posts) = 3
    /\ sinkLog[1].ev = "post"

\* the first sink call made for a message (or batch): no earlier call is for it
FirstCalls ==
    { i \in PostAt : \A k \in PostAt : k < i => sinkLog[k].first # sinkLog[i].first }

\* the last sink call made before place i of sinkLog
CallBefore(i) == CHOOSE k \in PostAt : k < i /\ \A j \in PostAt : j < i => j <= k

\* C11: between two successive sends (a send is a message or batch with all
\* its attempts) the fixed pacing delay of 1 s elapses: what comes just before
\* the first sink call of every send but the first is that delay, whether
\* the send before it was delivered or exhausted its retries; and no two
\* sink calls at all follow each other without a wait of at least 1 s.
C11_PacedBetweenSends ==
    /\ \A i \in FirstCalls :
         (\E k \in PostAt : k < i) =>
             /\ sinkLog[i - 1] = Sleep(1)
             /\ sinkLog[CallBefore(i)].first < sinkLog[i].first
    /\ \A i \in PostAt :
         (\E k \in PostAt : k < i) =>
             (sinkLog[i - 1].ev = "sleep" /\ sinkLog[i - 1].d >= 1)

\* a send of job_alert follows one that exhausted its retries, and a send
\* follows one that was delivered
C11_Witness ==
    /\ prog = "job_alert"
    /\ \E i \in FirstCalls :
         /\ \E k \in PostAt : k < i
         /\ ~ sinkLog[CallBefore(i)].ok
         /\ sinkLog[i - 1] = Sleep(1)
    /\ \E i \in FirstCalls :
         /\ \E k \in PostAt : k < i
         /\ sinkLog[CallBefore(i)].ok

\* C12: a failed notification is not fatal: no sink failure ends the run,
\* the dispatcher has a next step while a message is left, and a run whose
\* sink was down all along ends with every message attempted max_retries
\* times, none delivered, and the store saved.
C12_FailedNotificationNotFatal ==
    /\ pc # "crashed"
    /\ (pc = "post") => ENABLED OneRun
    /\ (pc = "done" /\ sink = "down") =>
         /\ \A m \in 1..Len(messages) :
              /\ Cardinality(CallsWith(m)) = max_retries
              /\ \A i \in CallsWith(m) : ~ Posts[i].ok
         /\ hist.saved

\* a run of job_alert with several messages, none of them delivered, has
\* ended with the store saved
C12_Witness ==
    /\ prog = "job_alert" /\ pc = "done" /\ sink = "down"
    /\ Len(messages) > 1
    /\ Len(Posts) = Len(messages) * JA_MAX_RETRIES
    /\ hist.saved
    /\ all_new_jobs # << >>

\* C13: with the webhook variable unset dispatch makes no sink call, retry or
\* backoff wait, and the run still goes through its stages: it does not
\* fail, and at its end every posting of an answering query was classified
\* and the store was saved.
C13_UnconfiguredSinkIsNoOp ==
    (env.webhook = "unset") =>
        /\ sinkLog = << >>
        /\ pc # "crashed"
        /\ (pc = "done") =>
             /\ hist.saved
             /\ \A q \in Queries :
                  (provider[q].ok /\ q \notin hist.raised) =>
                      hist.classified[q] = Len(provider[q].jobs)

\* C14: the save of the store (Persisting) completes before the first
\* notification is sent to the sink (Notifying).
C14_PersistBeforeNotify == (Posts # << >>) => hist.saved

\* C15: just after the load and sweep at time now, an entry first seen at
\* now - TTL - 1 s is not in the store and one first seen at now - TTL + 1 s is.
C15_TTLExpiry ==
    (pc = "loaded" /\ hist.recorded = {}) =>
        \A u \in DOMAIN hist.born :
            /\ (hist.born[u] = now - TTL - 1) => u \notin Held
            /\ (hist.born[u] = now - TTL + 1) => u \in Held

\* C16: a persisted file that is not the script's document (invalid JSON,
\* no or an ill-typed entries collection, an entry without timestamp, a file
\* that cannot be read) does not fail the run: the store is loaded empty.
C16_CorruptStoreLoadsEmpty ==
    (env.file # "ok" /\ env.disk = "ok" /\ pc # "start") =>
        (pc # "crashed" /\ hist.loaded = {})

\* C17: when the write of the store fails the run is not aborted, at its end
\* every message was handed to the sink, and the file is still the document
\* last saved.
C17_WriteFailureNotFatal ==
    (env.disk # "ok") =>
        /\ pc # "crashed"
        /\ env.file = "ok"
        /\ (pc = "done") => \A m \in 1..Len(messages) : CallsWith(m) # {}

\* C18: after every save the file holds at most MAX_JOBS_TO_KEEP entries.
C18_PersistedWithinCapacity ==
    (pc = "saved") => Cardinality(Persisted) <= MAX_JOBS_TO_KEEP

\* C19: when the store in memory holds more than MAX_JOBS_TO_KEEP entries,
\* every entry the save wrote was first seen no earlier than every entry it
\* left out.
C19_OldestDroppedFirst ==
    (pc = "saved" /\ Cardinality(DOMAIN hist.before) > MAX_JOBS_TO_KEEP) =>
        \A p \in Persisted : \A d \in (DOMAIN hist.before) \ Persisted :
            hist.before[p] >= hist.before[d]

\* the next run has just loaded what the last save of the run before wrote
Reloaded == pc = "loaded" /\ run > 1 /\ hist.recorded = {}

\* the store that was saved was within capacity and none of its entries has
\* expired by now
RoundTrips ==
    /\ Cardinality(DOMAIN hist.before) <= MAX_JOBS_TO_KEEP
    /\ \A u \in DOMAIN hist.before : hist.before[u] > now - TTL

Written ==
    IF prog = "elite" THEN cache
    ELSE LastInOrder(SEEN_JOBS, hist.order, MAX_JOBS_TO_KEEP)

C22_NoLostUpdate ==
    (prog = "elite" /\ pc \in { "build", "post", "done" }) =>
        SumOver(total_filter_counts, EC_Reasons) = SumOver(hist.classified, Queries)

\* the queries whose provider call never returns
Hung == { q \in Queries : env.calls[q] = "never" }

\* every message of the run was handed to the sink
AllHandedOver == messages # << >> /\ \A m \in 1..Len(messages) : CallsWith(m) # {}

\* C23: a provider call that never returns does not stall the run: the run
\* always has a next step until it is done, it does not fail, and at its end
\* the postings of the queries that answered were classified, the store was
\* saved and every message handed to the sink.
C23_HungCallDoesNotStall ==
    (Hung # {}) =>
        /\ pc # "crashed"
        /\ (pc # "done") => ENABLED NextStall
        /\ (pc = "done") =>
             /\ hist.saved
             /\ AllHandedOver
             /\ \A q \in Queries \ Hung :
                  (provider[q].ok /\ q \notin hist.raised) =>
                      hist.classified[q] = Len(provider[q].jobs)

\* the queries whose provider call is in flight when the deadline of the
\* fetch loop passes
InFlightAtDeadline == { q \in Queries : env.calls[q] # "in_time" }

\* C24: when the run's deadline passes while fetch calls are in flight, the
\* calls are abandoned, not awaited, and the run goes on to save and to
\* notify: it does not wait for them, it does not fail, it always has a next
\* step until it is done, and at its end the store is saved and the postings
\* accepted so far are the notified ones.
C24_DeadlineAbandonsInFlight ==
    (prog = "test" /\ InFlightAtDeadline # {}) =>
        /\ pc \notin { "joining", "crashed" }
        /\ (pc # "done") => ENABLED NextStall
        /\ (pc = "done") =>
             /\ hist.saved
             /\ AllHandedOver
             /\ NotifiedUrls = UrlsOf(all_new_jobs)

\* C25: at every moment of the fetching at most max_workers provider calls
\* are in flight (5 in job_alert, 3 in test_job_alert, 5 in elite_companies,
\* one batch's pool being closed before the next is opened), whatever the
\* number of queries submitted.
C25_WorkerBudget ==
    (pc = "pool") => Cardinality(InFlight) <= max_workers

\* more queries than workers: the budget is used up and a query waits in
\* the queue, in the second pool of elite_companies
C25_Witness ==
    /\ prog = "elite" /\ pc = "pool"
    /\ CurBatch = 2
    /\ Cardinality(InFlight) = max_workers
    /\ ItemsIn("queued", CurBatch) # {}


\* C26: a posting without description never makes its classification raise,
\* so no query's filtering fails, and at the end of the run every posting of
\* an answering query was classified and every posting nothing speaks
\* against was accepted, whatever other postings the query returned.
C26_AbsentDescriptionTolerated ==
    /\ hist.raised = {}
    /\ (pc = "done") =>
         \A q \in Queries : provider[q].ok =>
             /\ hist.classified[q] = Len(provider[q].jobs)
             /\ \A i \in 1..Len(provider[q].jobs) :
                  LET job == provider[q].jobs[i]
                  IN  (job = GoodJob(job.job_url) /\ job.job_url \notin hist.loaded)
                      => job.job_url \in UrlsOf(all_new_jobs)

\* the phrase is followed at once by a negation qualifier
Qualified(p) == p.after # << >> /\ p.after[1] \in NegationQualifiers

\* C27: stage 2 of test_job_alert on a LinkedIn posting whose page holds one
\* requirement of the ceiling or more years: followed at once by a negation
\* qualifier ("5+ years preferred") it is not classified
\* "experience_required"; with no qualifier, bare or followed by "required"
\* ("5+ years required"), it is.
C27_NegationHandling ==
    \A text \in ExperienceTexts :
        ( /\ prog = "test" /\ pc = "classified"
          /\ outcome.reason \in { "stage2_passed", "clearance_required",
                                  "experience_required", "sponsorship_required" }
          /\ IsLinkedIn(cur.job_url)
          /\ cur.page = Some({ text })
          /\ YearsMatch(Words(text).n)
          /\ Len(Words(text).after) <= 1 )
        => IF Qualified(Words(text))
           THEN outcome.reason # "experience_required"
           ELSE outcome.reason = "experience_required"

\* the places of the messages of kind k
MessagesOf(k) == { i \in 1..Len(messages) : messages[i].kind = k }

\* the postings of company c in the messages, in the order of the messages
ListedFor(c) ==
    LET mine == SelectSeq(messages, LAMBDA m : m.kind = "job" /\ m.company = c)
    IN  [ i \in 1..Len(mine) |-> mine[i].url ]

\* the postings accepted for company c, in the order they were accepted in
AcceptedFor(c) ==
    LET mine == SelectSeq(all_new_jobs, LAMBDA j : j.company_searched = c)
    IN  [ i \in 1..Len(mine) |-> mine[i].job_url ]

Retries == PostAt \ FirstCalls

C30_DispatchTerminates ==
    /\ pc # "crashed"
    /\ (pc = "post") => ENABLED OneRun
    /\ \A m \in 1..Len(messages) : Cardinality(CallsWith(m)) <= max_retries
    /\ (pc = "done") => AllHandedOver

\* C31: the store in memory holds every id of the loaded file and every
\* recorded id, and nothing else, as one entry each (a set, or the keys of a
\* dict); and once the script has saved, the file lists no id twice, whatever
\* file was loaded and whatever ids were recorded again.
C31_OneEntryPerId ==
    /\ (pc = "loaded") => (Range(Listed) \subseteq Held /\ Held \subseteq DocIds)
    /\ hist.saved =>
           \A i, j \in 1..Len(Listed) : Listed[i] = Listed[j] => i = j

\* the script loaded a file that listed an id twice, recorded an id it
\* already held, and saved two ids
C31_Witness ==
    /\ pc = "saved"
    /\ hist.twice # {}
    /\ hist.again
    /\ Len(Listed) = 2

\* C32: a posting is given the reason "source" ("bad_source" in
\* elite_companies) only if its source, the field "via", matches the
\* denylist of sources.
C32_SourceRejectBySourceOnly ==
    (pc = "classified" /\ outcome.reason \in { "source", "bad_source" }) =>
        IF prog = "elite"
        THEN "dice" \in Text(cur.via) \/ "lensa" \in Text(cur.via)
        ELSE Search(SOURCE_REJECT, Text(cur.via))

\* C33: just after the load and sweep of elite_companies at time now, the
\* store holds exactly the entries of the file that were first seen at
\* now - TTL or later: the entry first seen exactly at now - TTL is kept.
C33_SweepKeepsBoundary ==
    (prog = "elite" /\ pc = "loaded" /\ hist.recorded = {}) =>
        \A u \in DOMAIN cacheFile :
            (u \in Held) <=> (cacheFile[u] >= now - TTL)

C35_NoPostingLost ==
    (prog = "test" /\ pc \in { "fetch", "post" }) =>
        Cardinality(SEEN_JOBS \ hist.loaded) =
            Len(all_new_jobs) + total_filter_counts["clearance_required"]
                + total_filter_counts["experience_required"]
                + total_filter_counts["sponsorship_required"]

\* the ids of the postings in the messages of the run
Notified == { messages[i].url : i \in MessagesOf("job") }

\* C36: in elite_companies, once the messages of the run are built, every id
\* the run added to the cache is the id of a posting in one of the messages,
\* also when the filtering of a company raised
C36_CachedIsNotified ==
    (prog = "elite" /\ pc \in { "post", "done" }) =>
        ((DOMAIN cache) \ hist.loaded) \subseteq Notified

=============================================================================
